---------------------------- MODULE Spec2Model ----------------------------
(***************************************************************************)
(* Pumba: a chaos injection engine for Docker containers.                  *)
(*                                                                         *)
(* Four parts of the program are modelled.                                 *)
(*                                                                         *)
(*  1. The recurrent scheduler and the signal handler of main.go           *)
(*     (runChaosCommand, handleSignals): the timer task, the receiver      *)
(*     loop, the cycle tasks it spawns, the lifecycle wait-group gWG and   *)
(*     the goroutine that waits for SIGINT/SIGTERM.  Specifications Spec   *)
(*     (safety) and FairSpec (the same steps under fair scheduling).       *)
(*                                                                         *)
(*  2. The operations of dockerClient (the container package): kill, stop, *)
(*     pause, remove, remove image and netem, run one invocation at a time *)
(*     against a runtime whose every call may fail.  Specification         *)
(*     ClientSpec.                                                         *)
(*                                                                         *)
(*  3. The command handlers of main.go (beforeCommand, getNamesOrPattern,  *)
(*     kill, netemDelay, pause, remove, stop): one command line is         *)
(*     validated and either rejected or handed to runChaosCommand.         *)
(*     Specification CmdSpec.                                              *)
(*                                                                         *)
(*  4. One dispatcher cycle, the chaosFn that runChaosCommand calls in     *)
(*     every cycle task: the targets are resolved from the names and the   *)
(*     pattern and the action is run on each of them.  The code of the     *)
(*     action package is not among the sources, the cycle follows the      *)
(*     design document.  Specification CycleSpec.                          *)
(***************************************************************************)
EXTENDS Integers, Sequences, FiniteSets, TLC

VARIABLES
    \* ---- scheduler (main.go) ----
    gTestRun,     \* main.go:32   one-shot test mode
    tickReady,    \* main.go:360  a tick is buffered in cmdTimeChan
    timerFired,   \* main.go:362  the one-shot time.Timer has fired
    timerPc,      \* main.go:367  position of the timer task
    dcClosed,     \* main.go:371  the command channel dc has been closed
    recvPc,       \* main.go:376  position of the receiver loop (main goroutine)
    gWG,          \* main.go:28   counter of the lifecycle wait-group
    cycle,        \* main.go:378  position of each cycle task
    sigChan,      \* main.go:520  a signal is buffered in the handler's channel c
    handlerPc,    \* main.go:524  position of the signal-handler goroutine
    exitStatus,   \* running, or how the process ended
    \* ---- history of the scheduler (not state of the program) ----
    placed,       \* main.go:369  commands received from dc so far, up to MaxCount
    started,      \* main.go:378  cycle tasks started so far, up to MaxCount
    errLogged,    \* main.go:381  some cycle has returned an error
    startedAfterErr, \* main.go:378  a cycle task was started after that
    \* ---- dockerClient (container package) ----
    op,           \* the operation being executed and its arguments
    cpc,          \* position inside the operation
    calls,        \* runtime API calls made so far, in order
    result,       \* what the operation returned
    now,          \* wall clock
    aux,          \* locals of the operation (deadline, exec id, wait outcomes)
    tc,           \* traffic-control objects installed in the container
    \* ---- command handlers (main.go) ----
    cli,          \* main.go:287  the command line given to app.Run
    cmdPc,        \* position of the command: before hook, action, outcome
    gInterval,    \* main.go:31   recurrent interval, in milliseconds
    handed,       \* main.go:356  what was passed to runChaosCommand
    \* ---- one dispatcher cycle (action package) ----
    disp          \* main.go:380  the chaosFn call: its arguments and locals

histVars == <<placed, started, errLogged, startedAfterErr>>
schedVars == <<gTestRun, tickReady, timerFired, timerPc, dcClosed, recvPc, gWG,
               cycle, sigChan, handlerPc, exitStatus, histVars>>
clientVars == <<op, cpc, calls, result, now, aux, tc>>
cmdVars == <<cli, cmdPc, gInterval, handed>>
dispVars == <<disp>>
vars == <<schedVars, clientVars, cmdVars, dispVars>>

-----------------------------------------------------------------------------
(* Bounds of the model *)

\* the history counts commands and cycle tasks up to this number
MaxCount == 2

\* cycle tasks that can be in flight at once
MaxCycles == 2

Slots == 1..MaxCycles

\* longest stop wait (seconds) and longest disruption duration tried
MaxWait == 2
MaxDuration == 2

\* how much longer than asked a time.Sleep may take
MaxJitter == 1

-----------------------------------------------------------------------------
(* Values of the client's variables before an operation is invoked *)

\* a container as the client sees it: ID(), ImageID() and StopSignal(), the
\* value of the stop-signal label ("" when the label is absent)
Containers ==
    { [id |-> "abc123", image |-> "img1", stopSignal |-> ""],
      [id |-> "def456", image |-> "img2", stopSignal |-> "SIGUSR1"] }

NoOp ==
    [kind |-> "none", c |-> [id |-> "", image |-> "", stopSignal |-> ""],
     dry |-> FALSE, signal |-> "", timeout |-> 0, duration |-> 0,
     force |-> FALSE, links |-> FALSE, volumes |-> FALSE,
     netInterface |-> <<>>, netemCmd |-> <<>>, targetIP |-> <<>>,
     filter |-> {}]

\* what an operation returned: nil, the error of the runtime call calls[from],
\* or the error StopContainer makes itself
NoResult == [status |-> "none", from |-> 0]
Nil == [status |-> "ok", from |-> 0]
ErrorOf(k) == [status |-> "error", from |-> k]
CouldNotBeStopped == [status |-> "could not be stopped", from |-> 0]

\* locals: the time.After deadline of waitForStop and whether its loop is in
\* its first iteration, which wait of StopContainer is running and how each
\* ended, where NetemContainer is (setup or teardown, which command), and the
\* locals of ListContainers: what the runtime listed, the place in that list,
\* the containers accepted so far, and the list returned
NoList == [isNil |-> TRUE, cs |-> <<>>]
AuxInit ==
    [deadline |-> 0, first |-> TRUE, waitNo |-> 0,
     wait1 |-> "none", wait2 |-> "none", phase |-> "none", step |-> 0,
     listing |-> <<>>, idx |-> 0, cs |-> <<>>, out |-> NoList]

-----------------------------------------------------------------------------
(***************************************************************************)
(* Part 1: runChaosCommand and handleSignals                               *)
(***************************************************************************)

Running == exitStatus = "running"

\* every cycle task that was started has returned
NoCycleInFlight == \A i \in Slots : cycle[i] = "idle"

\* one more in a history count
Counted(n) == IF n < MaxCount THEN n + 1 ELSE n

SchedInit ==
    /\ gTestRun \in BOOLEAN
    /\ tickReady = FALSE
    /\ timerFired = FALSE
    /\ timerPc = "range"
    /\ dcClosed = FALSE
    /\ recvPc = "range"
    /\ gWG = 0
    /\ cycle = [i \in Slots |-> "idle"]
    /\ sigChan = FALSE
    /\ handlerPc = "recv"
    /\ exitStatus = "running"
    /\ placed = 0
    /\ started = 0
    /\ errLogged = FALSE
    /\ startedAfterErr = FALSE

\* a timer that fires again and again in the one-shot mode too
TimerFireAgain ==
    /\ Running
    /\ ~tickReady
    /\ tickReady' = TRUE
    /\ timerFired' = TRUE
    /\ UNCHANGED <<clientVars, cmdVars, dispVars>>
    /\ UNCHANGED histVars
    /\ UNCHANGED <<gTestRun, timerPc, dcClosed, recvPc, gWG, cycle, sigChan,
                   handlerPc, exitStatus>>

\* The interval elapses: time.NewTimer fires once, time.NewTicker fires again
\* and again; the channel holds one tick and the runtime drops a tick that
\* finds it full.
TimerFire ==
    /\ Running
    /\ ~tickReady
    /\ gTestRun => ~timerFired
    /\ tickReady' = TRUE
    /\ timerFired' = TRUE
    /\ UNCHANGED <<clientVars, cmdVars, dispVars>>
    /\ UNCHANGED histVars
    /\ UNCHANGED <<gTestRun, timerPc, dcClosed, recvPc, gWG, cycle, sigChan,
                   handlerPc, exitStatus>>

\* for range cmdTimeChan: the timer task takes a tick
TimerRange ==
    /\ Running
    /\ timerPc = "range"
    /\ tickReady
    /\ tickReady' = FALSE
    /\ timerPc' = "send"
    /\ UNCHANGED <<clientVars, cmdVars, dispVars>>
    /\ UNCHANGED histVars
    /\ UNCHANGED <<gTestRun, timerFired, dcClosed, recvPc, gWG, cycle, sigChan,
                   handlerPc, exitStatus>>

\* a send that does not wait for the receiver, as on a buffered channel
DcSendWithoutReceiver ==
    /\ Running
    /\ timerPc = "send"
    /\ ~dcClosed
    /\ timerPc' = "sent"
    /\ placed' = Counted(placed)
    /\ UNCHANGED <<clientVars, cmdVars, dispVars>>
    /\ UNCHANGED <<started, errLogged, startedAfterErr>>
    /\ UNCHANGED <<gTestRun, tickReady, timerFired, dcClosed, recvPc, gWG, cycle,
                   sigChan, handlerPc, exitStatus>>

\* dc <- cmd meets for cmd := range dc: dc is unbuffered, so the send and the
\* receive are one step
DcRendezvous ==
    /\ Running
    /\ timerPc = "send"
    /\ recvPc = "range"
    /\ ~dcClosed
    /\ timerPc' = "sent"
    /\ recvPc' = "add"
    /\ placed' = Counted(placed)
    /\ UNCHANGED <<clientVars, cmdVars, dispVars>>
    /\ UNCHANGED <<started, errLogged, startedAfterErr>>
    /\ UNCHANGED <<gTestRun, tickReady, timerFired, dcClosed, gWG, cycle,
                   sigChan, handlerPc, exitStatus>>

\* a timer task that closes dc after every send, in the recurring mode too
TimerAfterSendCloses ==
    /\ Running
    /\ timerPc = "sent"
    /\ dcClosed' = TRUE
    /\ timerPc' = "range"
    /\ UNCHANGED <<clientVars, cmdVars, dispVars>>
    /\ UNCHANGED histVars
    /\ UNCHANGED <<gTestRun, tickReady, timerFired, recvPc, gWG, cycle,
                   sigChan, handlerPc, exitStatus>>

\* if gTestRun { close(dc) }, then back to the head of the loop
TimerAfterSend ==
    /\ Running
    /\ timerPc = "sent"
    /\ dcClosed' = (dcClosed \/ gTestRun)
    /\ timerPc' = "range"
    /\ UNCHANGED <<clientVars, cmdVars, dispVars>>
    /\ UNCHANGED histVars
    /\ UNCHANGED <<gTestRun, tickReady, timerFired, recvPc, gWG, cycle,
                   sigChan, handlerPc, exitStatus>>

\* gWG.Add(1)
ReceiverAdd ==
    /\ Running
    /\ recvPc = "add"
    /\ gWG' = gWG + 1
    /\ recvPc' = "spawn"
    /\ UNCHANGED <<clientVars, cmdVars, dispVars>>
    /\ UNCHANGED histVars
    /\ UNCHANGED <<gTestRun, tickReady, timerFired, timerPc, dcClosed, cycle,
                   sigChan, handlerPc, exitStatus>>

\* go func(cmd) {...}(cmd): a cycle task is started
ReceiverSpawn(i) ==
    /\ Running
    /\ recvPc = "spawn"
    /\ cycle[i] = "idle"
    /\ cycle' = [cycle EXCEPT ![i] = "spawned"]
    /\ recvPc' = "range"
    /\ started' = Counted(started)
    /\ startedAfterErr' = (startedAfterErr \/ errLogged)
    /\ UNCHANGED <<clientVars, cmdVars, dispVars>>
    /\ UNCHANGED <<placed, errLogged>>
    /\ UNCHANGED <<gTestRun, tickReady, timerFired, timerPc, dcClosed, gWG,
                   sigChan, handlerPc, exitStatus>>

\* a runChaosCommand that calls gWG.Wait() before it returns
ReceiverReturnAfterWait ==
    /\ Running
    /\ recvPc = "range"
    /\ dcClosed
    /\ gWG = 0
    /\ recvPc' = "returned"
    /\ UNCHANGED <<clientVars, cmdVars, dispVars>>
    /\ UNCHANGED histVars
    /\ UNCHANGED <<gTestRun, tickReady, timerFired, timerPc, dcClosed, gWG,
                   cycle, sigChan, handlerPc, exitStatus>>

\* for cmd := range dc ends on the closed channel: runChaosCommand returns
ReceiverReturn ==
    /\ Running
    /\ recvPc = "range"
    /\ dcClosed
    /\ recvPc' = "returned"
    /\ UNCHANGED <<clientVars, cmdVars, dispVars>>
    /\ UNCHANGED histVars
    /\ UNCHANGED <<gTestRun, tickReady, timerFired, timerPc, dcClosed, gWG,
                   cycle, sigChan, handlerPc, exitStatus>>

\* the command action returns nil, app.Run returns nil and main returns
MainReturn ==
    /\ Running
    /\ recvPc = "returned"
    /\ exitStatus' = "exit0"
    /\ UNCHANGED <<clientVars, cmdVars, dispVars>>
    /\ UNCHANGED histVars
    /\ UNCHANGED <<gTestRun, tickReady, timerFired, timerPc, dcClosed, recvPc,
                   gWG, cycle, sigChan, handlerPc>>

\* chaosFn(client, names, pattern, cmd) begins: the disruption is applied and
\* stays applied (pause, netem), or the call is over at once (kill, stop,
\* remove, or an apply that failed)
CycleApply(i) ==
    /\ Running
    /\ cycle[i] = "spawned"
    /\ \E next \in {"applied", "returnedOk", "returnedErr"} :
            cycle' = [cycle EXCEPT ![i] = next]
    /\ UNCHANGED <<clientVars, cmdVars, dispVars>>
    /\ UNCHANGED histVars
    /\ UNCHANGED <<gTestRun, tickReady, timerFired, timerPc, dcClosed, recvPc,
                   gWG, sigChan, handlerPc, exitStatus>>

\* the duration has elapsed and the disruption is reverted; chaosFn returns
CycleRevert(i) ==
    /\ Running
    /\ cycle[i] = "applied"
    /\ \E next \in {"returnedOk", "returnedErr"} :
            cycle' = [cycle EXCEPT ![i] = next]
    /\ UNCHANGED <<clientVars, cmdVars, dispVars>>
    /\ UNCHANGED histVars
    /\ UNCHANGED <<gTestRun, tickReady, timerFired, timerPc, dcClosed, recvPc,
                   gWG, sigChan, handlerPc, exitStatus>>

\* a cycle task that ends the process when chaosFn failed
CycleDoneFatal(i) ==
    /\ Running
    /\ cycle[i] \in {"returnedOk", "returnedErr"}
    /\ gWG' = gWG - 1
    /\ cycle' = [cycle EXCEPT ![i] = "idle"]
    /\ exitStatus' = IF cycle[i] = "returnedErr" THEN "exit1" ELSE exitStatus
    /\ errLogged' = (errLogged \/ cycle[i] = "returnedErr")
    /\ UNCHANGED <<clientVars, cmdVars, dispVars>>
    /\ UNCHANGED <<placed, started, startedAfterErr>>
    /\ UNCHANGED <<gTestRun, tickReady, timerFired, timerPc, dcClosed, recvPc,
                   sigChan, handlerPc>>

\* a cycle task that calls gWG.Done() only when chaosFn succeeded
CycleDoneNotOnError(i) ==
    /\ Running
    /\ cycle[i] \in {"returnedOk", "returnedErr"}
    /\ gWG' = IF cycle[i] = "returnedErr" THEN gWG ELSE gWG - 1
    /\ cycle' = [cycle EXCEPT ![i] = "idle"]
    /\ errLogged' = (errLogged \/ cycle[i] = "returnedErr")
    /\ UNCHANGED <<clientVars, cmdVars, dispVars>>
    /\ UNCHANGED <<placed, started, startedAfterErr>>
    /\ UNCHANGED <<gTestRun, tickReady, timerFired, timerPc, dcClosed, recvPc,
                   sigChan, handlerPc, exitStatus>>

\* log.Error(err) when chaosFn failed, then the deferred gWG.Done()
CycleDone(i) ==
    /\ Running
    /\ cycle[i] \in {"returnedOk", "returnedErr"}
    /\ gWG' = gWG - 1
    /\ cycle' = [cycle EXCEPT ![i] = "idle"]
    /\ errLogged' = (errLogged \/ cycle[i] = "returnedErr")
    /\ UNCHANGED <<clientVars, cmdVars, dispVars>>
    /\ UNCHANGED <<placed, started, startedAfterErr>>
    /\ UNCHANGED <<gTestRun, tickReady, timerFired, timerPc, dcClosed, recvPc,
                   sigChan, handlerPc, exitStatus>>

\* SIGINT or SIGTERM is delivered: signal.Notify puts it in c (capacity 1)
SignalArrive ==
    /\ Running
    /\ ~sigChan
    /\ sigChan' = TRUE
    /\ UNCHANGED <<clientVars, cmdVars, dispVars>>
    /\ UNCHANGED histVars
    /\ UNCHANGED <<gTestRun, tickReady, timerFired, timerPc, dcClosed, recvPc,
                   gWG, cycle, handlerPc, exitStatus>>

\* <-c
HandlerRecv ==
    /\ Running
    /\ handlerPc = "recv"
    /\ sigChan
    /\ sigChan' = FALSE
    /\ handlerPc' = "wait"
    /\ UNCHANGED <<clientVars, cmdVars, dispVars>>
    /\ UNCHANGED histVars
    /\ UNCHANGED <<gTestRun, tickReady, timerFired, timerPc, dcClosed, recvPc,
                   gWG, cycle, exitStatus>>

\* gWG.Wait() returns: the counter is zero
HandlerWait ==
    /\ Running
    /\ handlerPc = "wait"
    /\ gWG = 0
    /\ handlerPc' = "exit"
    /\ UNCHANGED <<clientVars, cmdVars, dispVars>>
    /\ UNCHANGED histVars
    /\ UNCHANGED <<gTestRun, tickReady, timerFired, timerPc, dcClosed, recvPc,
                   gWG, cycle, sigChan, exitStatus>>

\* os.Exit(1)
HandlerExit ==
    /\ Running
    /\ handlerPc = "exit"
    /\ exitStatus' = "exit1"
    /\ UNCHANGED <<clientVars, cmdVars, dispVars>>
    /\ UNCHANGED histVars
    /\ UNCHANGED <<gTestRun, tickReady, timerFired, timerPc, dcClosed, recvPc,
                   gWG, cycle, sigChan, handlerPc>>

Next ==
    \/ TimerFire
    \/ TimerRange
    \/ DcRendezvous
    \/ TimerAfterSend
    \/ ReceiverAdd
    \/ \E i \in Slots : ReceiverSpawn(i)
    \/ ReceiverReturn
    \/ MainReturn
    \/ \E i \in Slots : CycleApply(i)
    \/ \E i \in Slots : CycleRevert(i)
    \/ \E i \in Slots : CycleDone(i)
    \/ SignalArrive
    \/ HandlerRecv
    \/ HandlerWait
    \/ HandlerExit

\* the client is not running while the scheduler is studied
ClientIdle ==
    /\ op = NoOp
    /\ cpc = "idle"
    /\ calls = <<>>
    /\ result = NoResult
    /\ now = 0
    /\ aux = AuxInit
    /\ tc = {}

\* no command line is studied while the scheduler or the client is
NoLine == [command |-> "none"]
NoHanded == [cmd |-> [kind |-> "none"], names |-> <<>>, pattern |-> <<>>]

CmdIdle ==
    /\ cli = NoLine
    /\ cmdPc = "idle"
    /\ gInterval = 0
    /\ handed = NoHanded

\* no dispatcher cycle is studied while the other parts are
NoCycle == [pc |-> "idle"]

DispIdle == disp = NoCycle

Init == SchedInit /\ ClientIdle /\ CmdIdle /\ DispIdle

Spec == Init /\ [][Next]_vars

\* Every goroutine that can take a step eventually takes it, time passes, and
\* every executor invocation returns.  gWG.Wait() is released whenever the
\* counter reaches zero, hence strong fairness for it.  No fairness for
\* SignalArrive: a signal may never come.
Fairness ==
    /\ WF_vars(TimerFire)
    /\ WF_vars(TimerRange)
    /\ WF_vars(DcRendezvous)
    /\ WF_vars(TimerAfterSend)
    /\ WF_vars(ReceiverAdd)
    /\ WF_vars(\E i \in Slots : ReceiverSpawn(i))
    /\ WF_vars(ReceiverReturn)
    /\ WF_vars(MainReturn)
    /\ \A i \in Slots : WF_vars(CycleApply(i))
    /\ \A i \in Slots : WF_vars(CycleRevert(i))
    /\ \A i \in Slots : WF_vars(CycleDone(i))
    /\ WF_vars(HandlerRecv)
    /\ SF_vars(HandlerWait)
    /\ WF_vars(HandlerExit)

FairSpec == Init /\ [][Next]_vars /\ Fairness

-----------------------------------------------------------------------------
(* Claims about the scheduler *)

\* the handler goroutine has taken a termination signal from its channel
SignalReceived == handlerPc # "recv"

\* C1: once a termination signal has been received, no command is placed on
\* the command channel and no new dispatcher cycle is started.
C1_NoTickAfterSignal ==
    [][SignalReceived =>
          /\ ~(timerPc = "send" /\ timerPc' = "sent")
          /\ \A i \in Slots : ~(cycle[i] = "idle" /\ cycle'[i] # "idle")]_vars

\* C2: when the process exits because of a termination signal, every cycle
\* task that was started has returned.
C2_ExitAfterDrain == exitStatus = "exit1" => NoCycleInFlight

\* C3: in the recurring mode, after a termination signal has been received the
\* process eventually exits with status 1, every executor invocation being
\* bound to return (FairSpec).
C3_SignalLeadsToExit ==
    (~gTestRun /\ SignalReceived) ~> (exitStatus = "exit1")

\* the counts of the one-shot mode never pass one, the channel is closed only
\* after the command was placed, and when the receiver loop has ended exactly
\* one command was placed and one cycle task started
OneShotCounts ==
    gTestRun =>
        /\ placed <= 1 /\ started <= placed
        /\ placed = 1 => timerFired /\ ~tickReady
        /\ dcClosed => placed = 1
        /\ recvPc = "returned" => placed = 1 /\ started = 1 /\ dcClosed

\* C18: in the one-shot test mode the timer fires once: exactly one command
\* is placed on the command channel, exactly one cycle task is started, the
\* channel is then closed, and no further cycle task is ever started; unless
\* a termination signal ends the process first, this does happen (FairSpec).
C18_OneShotFiresOnce ==
    /\ []OneShotCounts
    /\ gTestRun ~> \/ placed = 1 /\ started = 1 /\ dcClosed
                   \/ exitStatus = "exit1"

C18_Witness ==
    /\ gTestRun
    /\ recvPc = "returned"
    /\ placed = 1 /\ started = 1 /\ dcClosed
    /\ NoCycleInFlight

\* a cycle task ends after its chaosFn returned an error
ErrorEnds == \E i \in Slots : cycle[i] = "returnedErr" /\ cycle'[i] = "idle"

\* C19: an error returned by a cycle never aborts the recurring schedule.
\* The step that ends a failed cycle leaves the timer task, the command
\* channel, the receiver loop and the process as they are; after an error,
\* as long as no termination signal has been received, the process runs and
\* the channel is open; and after an error the command of every tick is
\* still received and every received command still gets its cycle task
\* started, unless the process has ended (FairSpec).
C19_ErrorDoesNotAbort ==
    /\ [][ErrorEnds => UNCHANGED <<tickReady, timerFired, timerPc, dcClosed,
                                   recvPc, sigChan, handlerPc, exitStatus>>]_vars
    /\ []((errLogged /\ ~gTestRun /\ ~SignalReceived) =>
              Running /\ ~dcClosed /\ recvPc # "returned")
    /\ (errLogged /\ ~gTestRun /\ timerPc = "send") ~> (timerPc = "sent" \/ ~Running)
    /\ (errLogged /\ ~gTestRun /\ recvPc = "add") ~> (recvPc = "range" \/ ~Running)

C19_Witness ==
    /\ ~gTestRun /\ ~SignalReceived /\ Running
    /\ errLogged /\ startedAfterErr
    /\ \E i \in Slots : cycle[i] = "spawned"

\* The containers a cycle task acts on: the running containers that match the
\* names and the pattern, which are the same for every cycle of a command
\* (chaosFn(client, names, pattern, cmd)); with no name and no pattern, the
\* selector of the scheduler studied here, they are all the containers.
CycleTargets(i) == {c.id : c \in Containers}

\* C20: no two transient disruptions are active on the same container at
\* once: two cycle tasks that have both applied their disruption and not yet
\* reverted it have no target in common.
C20_NoOverlapOnOneContainer ==
    \A i, j \in Slots :
        (i # j /\ cycle[i] = "applied" /\ cycle[j] = "applied") =>
            CycleTargets(i) \cap CycleTargets(j) = {}

\* steps of the timer path: a command is placed on dc; a cycle task is started
Placing == timerPc = "send" /\ timerPc' = "sent"
Starting(i) == cycle[i] = "idle" /\ cycle'[i] # "idle"

\* C26: the timer path is serial.  A command is placed on dc only in the step
\* in which the receiver loop, waiting at its range, takes it, so the next
\* command is not placed before; a cycle task is started only by the receiver
\* for the command it has just received, one task per command: the commands
\* received are at most one ahead of the cycle tasks started, and are ahead
\* only while the receiver is between its receive and its go statement.
\* Nothing waits for a running cycle: two cycle tasks can be in flight.
C26_TimerPathSerial ==
    /\ [][Placing => recvPc = "range" /\ recvPc' = "add"]_vars
    /\ [][\A i \in Slots : Starting(i) =>
              /\ recvPc = "spawn" /\ recvPc' = "range"
              /\ \A j \in Slots \ {i} : cycle'[j] = cycle[j]]_vars
    /\ [][(recvPc = "spawn" /\ recvPc' # "spawn") => \E i \in Slots : Starting(i)]_vars
    /\ [](/\ started <= placed
          /\ placed <= Counted(started)
          /\ placed # started => recvPc \in {"add", "spawn"})

C26_Witness ==
    /\ ~gTestRun
    /\ placed = 2 /\ started = 2
    /\ cycle[1] = "applied" /\ cycle[2] = "spawned"

\* the cycle tasks that were started and have not returned from their function
InFlight == {i \in Slots : cycle[i] # "idle"}

\* gWG.Add(1) was called for a cycle task that the go statement has not started yet
Announced == IF recvPc = "spawn" THEN 1 ELSE 0

WaitGroupCounts ==
    /\ gWG = Cardinality(InFlight) + Announced
    /\ gWG >= 0
    /\ gWG = 0 => NoCycleInFlight

WaitGroupSteps ==
    /\ gWG' # gWG => gWG' = gWG + 1 \/ gWG' = gWG - 1
    /\ gWG' = gWG + 1 => recvPc = "add" /\ recvPc' = "spawn" /\ cycle' = cycle
    /\ \A i \in Slots :
          /\ (cycle[i] = "idle" /\ cycle'[i] # "idle") =>
                recvPc = "spawn" /\ gWG' = gWG /\ gWG > Cardinality(InFlight)
          /\ (cycle[i] # "idle" /\ cycle'[i] = "idle") =>
                /\ cycle[i] \in {"returnedOk", "returnedErr"}
                /\ gWG' = gWG - 1
                /\ \A j \in Slots \ {i} : cycle'[j] = cycle[j]
    /\ gWG' = gWG - 1 => \E i \in Slots : cycle[i] # "idle" /\ cycle'[i] = "idle"

\* C30: the counter of gWG is the number of cycle tasks in flight, plus one
\* between gWG.Add(1) and the go statement that follows it: it goes up by one
\* only in the receiver loop, before the task is started, and down by one
\* only when one task returns, once for that task, whether its chaos function
\* succeeded or failed; it is never negative, and when it is zero no started
\* cycle task is still running.
C30_WaitGroupCountsCycles ==
    /\ []WaitGroupCounts
    /\ [][WaitGroupSteps]_vars

C30_Witness ==
    /\ errLogged /\ gWG = 1 /\ recvPc = "range"
    /\ \E i \in Slots : cycle[i] = "applied" /\ \A j \in Slots \ {i} : cycle[j] = "idle"

NoSendOnClosed ==
    /\ ~(dcClosed /\ timerPc \in {"send", "sent"})
    /\ dcClosed => /\ gTestRun
                   /\ placed = 1
                   /\ timerFired /\ ~tickReady
    /\ ~gTestRun => ~dcClosed

ClosedAfterReceive ==
    /\ (~dcClosed /\ dcClosed') =>
          gTestRun /\ timerPc = "sent" /\ placed = 1
    /\ dcClosed => dcClosed' /\ timerPc' = timerPc /\ placed' = placed

\* C31: the timer task is never at its send, nor past it, with dc closed; dc
\* is closed only in the one-shot mode, by the timer task after its one send
\* was taken by the receiver, and from then on the timer task stays at the
\* head of its loop with no tick to come; in the recurring mode dc is never
\* closed.
C31_NoSendAfterClose ==
    /\ []NoSendOnClosed
    /\ [][ClosedAfterReceive]_vars

C31_Witness ==
    /\ gTestRun /\ dcClosed /\ timerPc = "range"
    /\ placed = 1 /\ recvPc = "returned"

\* C32: runChaosCommand returns only in the one-shot mode, once dc is closed,
\* and its return does not wait for the wait-group: whenever the receiver
\* loop is at its head with dc closed the return can be taken, whatever the
\* counter of gWG is and whatever the one dispatched cycle is doing, and so
\* can the return of the command action after it.
C32_ReturnDoesNotWait ==
    /\ (Running /\ recvPc = "range" /\ dcClosed) => ENABLED ReceiverReturn
    /\ (Running /\ recvPc = "returned") => ENABLED MainReturn
    /\ recvPc = "returned" => gTestRun /\ dcClosed /\ started <= 1

C32_Witness ==
    /\ gTestRun /\ exitStatus = "exit0" /\ recvPc = "returned"
    /\ gWG = 1
    /\ \E i \in Slots : cycle[i] = "applied"

-----------------------------------------------------------------------------
(***************************************************************************)
(* Part 2: dockerClient                                                    *)
(*                                                                         *)
(* A string is a sequence of pieces; the piece " " is one space and no     *)
(* other piece holds a space.  The literals of the code are cut at their   *)
(* spaces, an interface name is given letter by letter.                    *)
(***************************************************************************)

SP == " "

\* program constants of the container package
defaultStopSignal == "SIGTERM"
defaultKillSignal == "SIGKILL"

\* strings.ToLower, piece by piece
LowerPiece(x) ==
    CASE x = "DELAY" -> "delay"
      [] x = "1000MS" -> "1000ms"
      [] OTHER -> x

ToLower(str) == [i \in DOMAIN str |-> LowerPiece(str[i])]

\* strings.Split(str, " "): the pieces between the spaces; n spaces give
\* n + 1 fields, empty ones included
RECURSIVE SplitFrom(_, _, _)
SplitFrom(str, i, field) ==
    IF i > Len(str) THEN <<field>>
    ELSE IF str[i] = SP THEN <<field>> \o SplitFrom(str, i + 1, <<>>)
    ELSE SplitFrom(str, i + 1, Append(field, str[i]))

\* a split that stops at the first space: the program and the rest
SplitOnce(str) ==
    IF \E i \in DOMAIN str : str[i] = SP
    THEN LET i == CHOOSE k \in DOMAIN str :
                      str[k] = SP /\ \A j \in 1..(k - 1) : str[j] # SP
         IN  <<SubSeq(str, 1, i - 1), SubSeq(str, i + 1, Len(str))>>
    ELSE <<str>>

Split(str) == SplitFrom(str, 1, <<>>)

\* "tc qdisc add dev " + netInterface + " root netem " + strings.ToLower(netemCmd)
NetemCommand(netInterface, netemCmd) ==
    <<"tc", SP, "qdisc", SP, "add", SP, "dev", SP>> \o netInterface
        \o <<SP, "root", SP, "netem", SP>> \o ToLower(netemCmd)

\* "tc qdisc del dev " + netInterface + " root netem"
NetemStopCommand(netInterface) ==
    <<"tc", SP, "qdisc", SP, "del", SP, "dev", SP>> \o netInterface
        \o <<SP, "root", SP, "netem">>

\* "tc qdisc add dev " + netInterface + " root handle 1: prio"
HandleCommand(netInterface) ==
    <<"tc", SP, "qdisc", SP, "add", SP, "dev", SP>> \o netInterface
        \o <<SP, "root", SP, "handle", SP, "1:", SP, "prio">>

\* "tc qdisc add dev " + netInterface + " parent 1:3 netem " + strings.ToLower(netemCmd)
FilterNetemCommand(netInterface, netemCmd) ==
    <<"tc", SP, "qdisc", SP, "add", SP, "dev", SP>> \o netInterface
        \o <<SP, "parent", SP, "1:3", SP, "netem", SP>> \o ToLower(netemCmd)

\* "tc filter add dev " + netInterface + " protocol ip parent 1:0 prio 3 " +
\* "u32 match ip dport " + strings.ToLower(targetIP) + " flowid 1:3"
FilterCommand(netInterface, targetIP) ==
    <<"tc", SP, "filter", SP, "add", SP, "dev", SP>> \o netInterface
        \o <<SP, "protocol", SP, "ip", SP, "parent", SP, "1:0", SP, "prio", SP,
             "3", SP, "u32", SP, "match", SP, "ip", SP, "dport", SP>>
        \o ToLower(targetIP) \o <<SP, "flowid", SP, "1:3">>

\* net.IP nil: no target IP
NoIP == <<>>

\* a setup that installs the filter before the netem qdisc it points to
SetupCommandsFilterFirst(o) ==
    IF o.targetIP = NoIP
    THEN <<NetemCommand(o.netInterface, o.netemCmd)>>
    ELSE <<HandleCommand(o.netInterface),
           FilterCommand(o.netInterface, o.targetIP),
           FilterNetemCommand(o.netInterface, o.netemCmd)>>

\* the commands NetemContainer runs before it sleeps: startNetemContainer runs
\* one, startNetemContainerIPFilter three
SetupCommands(o) ==
    IF o.targetIP = NoIP
    THEN <<NetemCommand(o.netInterface, o.netemCmd)>>
    ELSE <<HandleCommand(o.netInterface),
           FilterNetemCommand(o.netInterface, o.netemCmd),
           FilterCommand(o.netInterface, o.targetIP)>>

\* the command execOnContainer is running now
CurrentCommand ==
    IF aux.phase = "setup" THEN SetupCommands(op)[aux.step]
    ELSE NetemStopCommand(op.netInterface)

\* What a started tc command leaves in the container: the root prio qdisc,
\* the netem qdisc (at the root or under band 1:3), the u32 filter; deleting
\* the root qdisc removes them all.
TcApply(installed, argv) ==
    IF Len(argv) < 6 THEN installed
    ELSE IF argv[2] = <<"filter">> /\ argv[3] = <<"add">> THEN installed \cup {"filter"}
    ELSE IF argv[2] = <<"qdisc">> /\ argv[3] = <<"del">> /\ argv[6] = <<"root">> THEN {}
    ELSE IF argv[2] = <<"qdisc">> /\ argv[3] = <<"add">> /\ argv[Len(argv)] = <<"prio">>
         THEN installed \cup {"prio"}
    ELSE IF argv[2] = <<"qdisc">> /\ argv[3] = <<"add">> THEN installed \cup {"netem"}
    ELSE installed

\* one call of the runtime API: what was called, on what, with what, when,
\* and what the runtime answered ("ok", "error"; for an inspect that succeeds
\* "running" or "exited")
ApiCall(api, id, arg, ret) ==
    [api |-> api, id |-> id, arg |-> arg, t |-> now, ret |-> ret]

Return(r) ==
    /\ result' = r
    /\ cpc' = "done"

\* the error of the call being appended to calls
ThisError == ErrorOf(Len(calls) + 1)

\* time.Sleep(n): at least n
Sleep(n) == \E j \in 0..MaxJitter : now' = now + n + j

NetInterfaces == { <<"e", "t", "h", "0">>, <<"l", "o">> }
NetemCmds == { <<"delay", SP, "1000ms">>, <<"DELAY", SP, "1000MS">> }
TargetIPs == { NoIP, <<"10.10.0.1">> }

\* what the runtime may list as running: none, one or both of the
\* containers, in either order
Listings ==
    {<<>>} \cup {<<c>> : c \in Containers}
           \cup {l \in [1..2 -> Containers] : l[1] # l[2]}

\* the Filter functions tried, each given by the IDs it accepts:
\* allContainers, noContainers, and one that accepts a single container
Filters == { {c.id : c \in Containers}, {}, {"def456"} }

\* The operations and arguments tried.
Invocations ==
    LET base(k, c, d) == [NoOp EXCEPT !.kind = k, !.c = c, !.dry = d] IN
    UNION { UNION {
        {[base("kill", c, d) EXCEPT !.signal = sg] : sg \in {"SIGKILL", "SIGHUP"}}
        \cup {[base("stop", c, d) EXCEPT !.timeout = w] : w \in 0..MaxWait}
        \cup {[base("pause", c, d) EXCEPT !.duration = n] : n \in 1..MaxDuration}
        \cup {[base("rm", c, d) EXCEPT !.force = f, !.links = l, !.volumes = v] :
                 f \in BOOLEAN, l \in BOOLEAN, v \in BOOLEAN}
        \cup {[base("rmi", c, d) EXCEPT !.force = f] : f \in BOOLEAN}
        \cup {[base("netem", c, d) EXCEPT !.netInterface = ni, !.netemCmd = nc,
                                          !.targetIP = ip, !.duration = n] :
                 ni \in NetInterfaces, nc \in NetemCmds, ip \in TargetIPs,
                 n \in 1..MaxDuration}
        : d \in BOOLEAN } : c \in Containers }
    \cup {[NoOp EXCEPT !.kind = "list", !.filter = f] : f \in Filters}

\* a method of dockerClient is called
Invoke ==
    /\ cpc = "idle"
    /\ \E o \in Invocations : op' = o
    /\ cpc' = "run"
    /\ UNCHANGED <<calls, result, now, aux, tc>>
    /\ UNCHANGED <<schedVars, cmdVars, dispVars>>

\* KillContainer
KillContainerNoDryCheck ==
    /\ cpc = "run" /\ op.kind = "kill"
    /\ \E ret \in {"ok", "error"} :
          /\ calls' = Append(calls, ApiCall("KillContainer", op.c.id, op.signal, ret))
          /\ Return(IF ret = "ok" THEN Nil ELSE ThisError)
    /\ UNCHANGED <<op, now, aux, tc>>
    /\ UNCHANGED <<schedVars, cmdVars, dispVars>>

KillContainer ==
    /\ cpc = "run" /\ op.kind = "kill"
    /\ IF op.dry
       THEN Return(Nil) /\ UNCHANGED calls
       ELSE \E ret \in {"ok", "error"} :
              /\ calls' = Append(calls, ApiCall("KillContainer", op.c.id, op.signal, ret))
              /\ Return(IF ret = "ok" THEN Nil ELSE ThisError)
    /\ UNCHANGED <<op, now, aux, tc>>
    /\ UNCHANGED <<schedVars, cmdVars, dispVars>>

\* ListContainers returns (cs, nil) or (nil, err)
ReturnList(r, list) ==
    /\ Return(r)
    /\ aux' = [aux EXCEPT !.out = list]

\* ListContainers: api.ListContainers(false, false, ""), the runtime answering
\* with an error or with the running containers
ListContainers ==
    /\ cpc = "run" /\ op.kind = "list"
    /\ \/ /\ calls' = Append(calls, ApiCall("ListContainers", "", "", "error"))
          /\ ReturnList(ThisError, NoList)
       \/ \E l \in Listings :
             /\ calls' = Append(calls, ApiCall("ListContainers", "", "", "ok"))
             /\ IF l = <<>>
                THEN ReturnList(Nil, [isNil |-> FALSE, cs |-> <<>>])
                ELSE /\ aux' = [aux EXCEPT !.listing = l, !.idx = 1, !.cs = <<>>]
                     /\ cpc' = "list:inspect"
                     /\ UNCHANGED result
    /\ UNCHANGED <<op, now, tc>>
    /\ UNCHANGED <<schedVars, cmdVars, dispVars>>

\* ListContainers, in the loop: api.InspectContainer(runningContainer.Id)
ListInspectContainer ==
    /\ cpc = "list:inspect"
    /\ \E ret \in {"ok", "error"} :
          /\ calls' = Append(calls, ApiCall("InspectContainer",
                                            aux.listing[aux.idx].id, "", ret))
          /\ IF ret = "error"
             THEN ReturnList(ThisError, NoList)
             ELSE cpc' = "list:image" /\ UNCHANGED <<result, aux>>
    /\ UNCHANGED <<op, now, tc>>
    /\ UNCHANGED <<schedVars, cmdVars, dispVars>>

\* a loop that keeps the container whatever the filter says
ListInspectImageUnfiltered ==
    /\ cpc = "list:image"
    /\ \E ret \in {"ok", "error"} :
          /\ calls' = Append(calls, ApiCall("InspectImage",
                                            aux.listing[aux.idx].image, "", ret))
          /\ IF ret = "error"
             THEN ReturnList(ThisError, NoList)
             ELSE LET cs == Append(aux.cs, aux.listing[aux.idx])
                  IN  IF aux.idx = Len(aux.listing)
                      THEN ReturnList(Nil, [isNil |-> FALSE, cs |-> cs])
                      ELSE /\ aux' = [aux EXCEPT !.cs = cs, !.idx = aux.idx + 1]
                           /\ cpc' = "list:inspect"
                           /\ UNCHANGED result
    /\ UNCHANGED <<op, now, tc>>
    /\ UNCHANGED <<schedVars, cmdVars, dispVars>>

\* ListContainers, in the loop: api.InspectImage(containerInfo.Image), then
\* if fn(c) { cs = append(cs, c) }, and the next container or return cs, nil
ListInspectImage ==
    /\ cpc = "list:image"
    /\ \E ret \in {"ok", "error"} :
          /\ calls' = Append(calls, ApiCall("InspectImage",
                                            aux.listing[aux.idx].image, "", ret))
          /\ IF ret = "error"
             THEN ReturnList(ThisError, NoList)
             ELSE LET c == aux.listing[aux.idx]
                      cs == IF c.id \in op.filter THEN Append(aux.cs, c) ELSE aux.cs
                  IN  IF aux.idx = Len(aux.listing)
                      THEN ReturnList(Nil, [isNil |-> FALSE, cs |-> cs])
                      ELSE /\ aux' = [aux EXCEPT !.cs = cs, !.idx = aux.idx + 1]
                           /\ cpc' = "list:inspect"
                           /\ UNCHANGED result
    /\ UNCHANGED <<op, now, tc>>
    /\ UNCHANGED <<schedVars, cmdVars, dispVars>>

\* RemoveImage
RemoveImage ==
    /\ cpc = "run" /\ op.kind = "rmi"
    /\ IF op.dry
       THEN Return(Nil) /\ UNCHANGED calls
       ELSE \E ret \in {"ok", "error"} :
              /\ calls' = Append(calls, ApiCall("RemoveImage", op.c.image, op.force, ret))
              /\ Return(IF ret = "ok" THEN Nil ELSE ThisError)
    /\ UNCHANGED <<op, now, aux, tc>>
    /\ UNCHANGED <<schedVars, cmdVars, dispVars>>

\* the enginetypes.ContainerRemoveOptions RemoveContainer builds
RemoveOpts(force, links, volumes) ==
    [RemoveVolumes |-> links, RemoveLinks |-> volumes, Force |-> force]

\* RemoveContainer
RemoveContainer ==
    /\ cpc = "run" /\ op.kind = "rm"
    /\ IF op.dry
       THEN Return(Nil) /\ UNCHANGED calls
       ELSE \E ret \in {"ok", "error"} :
              /\ calls' = Append(calls, ApiCall("ContainerRemove", op.c.id,
                                    RemoveOpts(op.force, op.links, op.volumes), ret))
              /\ Return(IF ret = "ok" THEN Nil ELSE ThisError)
    /\ UNCHANGED <<op, now, aux, tc>>
    /\ UNCHANGED <<schedVars, cmdVars, dispVars>>

\* PauseContainer up to the sleep: api.PauseContainer
PauseContainer ==
    /\ cpc = "run" /\ op.kind = "pause"
    /\ IF op.dry
       THEN Return(Nil) /\ UNCHANGED calls
       ELSE \E ret \in {"ok", "error"} :
              /\ calls' = Append(calls, ApiCall("PauseContainer", op.c.id, "", ret))
              /\ IF ret = "ok"
                 THEN cpc' = "pause:sleep" /\ UNCHANGED result
                 ELSE Return(ThisError)
    /\ UNCHANGED <<op, now, aux, tc>>
    /\ UNCHANGED <<schedVars, cmdVars, dispVars>>

\* a PauseContainer that does not wait
PauseSleepSkipped ==
    /\ cpc = "pause:sleep"
    /\ cpc' = "pause:unpause"
    /\ UNCHANGED <<op, calls, result, now, aux, tc>>
    /\ UNCHANGED <<schedVars, cmdVars, dispVars>>

\* PauseContainer: time.Sleep(duration)
PauseSleep ==
    /\ cpc = "pause:sleep"
    /\ Sleep(op.duration)
    /\ cpc' = "pause:unpause"
    /\ UNCHANGED <<op, calls, result, aux, tc>>
    /\ UNCHANGED <<schedVars, cmdVars, dispVars>>

\* a PauseContainer that drops the error of api.UnpauseContainer
PauseUnpauseErrorDropped ==
    /\ cpc = "pause:unpause"
    /\ \E ret \in {"ok", "error"} :
          /\ calls' = Append(calls, ApiCall("UnpauseContainer", op.c.id, "", ret))
          /\ Return(Nil)
    /\ UNCHANGED <<op, now, aux, tc>>
    /\ UNCHANGED <<schedVars, cmdVars, dispVars>>

\* PauseContainer after the sleep: api.UnpauseContainer
PauseUnpause ==
    /\ cpc = "pause:unpause"
    /\ \E ret \in {"ok", "error"} :
          /\ calls' = Append(calls, ApiCall("UnpauseContainer", op.c.id, "", ret))
          /\ Return(IF ret = "ok" THEN Nil ELSE ThisError)
    /\ UNCHANGED <<op, now, aux, tc>>
    /\ UNCHANGED <<schedVars, cmdVars, dispVars>>

\* a StopContainer that ignores the stop-signal label
StopSignalLabelIgnored(c) == defaultStopSignal

\* signal := c.StopSignal(); if signal == "" { signal = defaultStopSignal }
StopSignal(c) == IF c.stopSignal = "" THEN defaultStopSignal ELSE c.stopSignal

\* a timeout that comes two seconds later than asked
WaitForStopBeginsLate(n) ==
    aux' = [aux EXCEPT !.deadline = now + op.timeout + 2, !.first = TRUE, !.waitNo = n]

\* timeout := time.After(time.Duration(waitTime) * time.Second)
WaitForStopBegins(n) ==
    aux' = [aux EXCEPT !.deadline = now + op.timeout, !.first = TRUE, !.waitNo = n]

\* StopContainer up to its first wait: the kill with the stop signal
StopContainer ==
    /\ cpc = "run" /\ op.kind = "stop"
    /\ IF op.dry
       THEN Return(Nil) /\ UNCHANGED <<calls, aux>>
       ELSE \E ret \in {"ok", "error"} :
              /\ calls' = Append(calls, ApiCall("KillContainer", op.c.id,
                                                StopSignal(op.c), ret))
              /\ IF ret = "ok"
                 THEN WaitForStopBegins(1) /\ cpc' = "wait:select" /\ UNCHANGED result
                 ELSE Return(ThisError) /\ UNCHANGED aux
    /\ UNCHANGED <<op, now, tc>>
    /\ UNCHANGED <<schedVars, cmdVars, dispVars>>

\* waitForStop returns to StopContainer; how it ended is kept:
\* "timeout" and "exited" return nil, "inspectError" returns the error
WaitForStopReturns(how) ==
    /\ aux' = IF aux.waitNo = 1 THEN [aux EXCEPT !.wait1 = how]
                                ELSE [aux EXCEPT !.wait2 = how]
    /\ cpc' = IF aux.waitNo = 1 THEN "stop:kill" ELSE "stop:result"

\* waitForStop: case <-timeout: return nil
WaitForStopTimeout ==
    /\ cpc = "wait:select"
    /\ now >= aux.deadline
    /\ WaitForStopReturns("timeout")
    /\ UNCHANGED <<op, calls, result, now, tc>>
    /\ UNCHANGED <<schedVars, cmdVars, dispVars>>

\* waitForStop: default: the inspect.  The timeout channel is empty before the
\* deadline; a timer of zero seconds may not have fired yet when the loop
\* starts.
WaitForStopInspect ==
    /\ cpc = "wait:select"
    /\ now < aux.deadline \/ aux.first
    /\ \E ret \in {"running", "exited", "error"} :
          /\ calls' = Append(calls, ApiCall("InspectContainer", op.c.id, "", ret))
          /\ CASE ret = "error" -> WaitForStopReturns("inspectError")
               [] ret = "exited" -> WaitForStopReturns("exited")
               [] OTHER -> cpc' = "wait:sleep" /\ aux' = [aux EXCEPT !.first = FALSE]
    /\ UNCHANGED <<op, result, now, tc>>
    /\ UNCHANGED <<schedVars, cmdVars, dispVars>>

\* waitForStop: time.Sleep(1 * time.Second)
WaitForStopSleep ==
    /\ cpc = "wait:sleep"
    /\ Sleep(1)
    /\ cpc' = "wait:select"
    /\ UNCHANGED <<op, calls, result, aux, tc>>
    /\ UNCHANGED <<schedVars, cmdVars, dispVars>>

\* a stop that waits a second time although its second kill failed
StopContainerKillErrorIgnored ==
    /\ cpc = "stop:kill"
    /\ \E ret \in {"ok", "error"} :
          /\ calls' = Append(calls, ApiCall("KillContainer", op.c.id,
                                            defaultKillSignal, ret))
          /\ WaitForStopBegins(2) /\ cpc' = "wait:select" /\ UNCHANGED result
    /\ UNCHANGED <<op, now, tc>>
    /\ UNCHANGED <<schedVars, cmdVars, dispVars>>

\* StopContainer between its waits: the kill with defaultKillSignal
StopContainerKill ==
    /\ cpc = "stop:kill"
    /\ \E ret \in {"ok", "error"} :
          /\ calls' = Append(calls, ApiCall("KillContainer", op.c.id,
                                            defaultKillSignal, ret))
          /\ IF ret = "ok"
             THEN WaitForStopBegins(2) /\ cpc' = "wait:select" /\ UNCHANGED result
             ELSE Return(ThisError) /\ UNCHANGED aux
    /\ UNCHANGED <<op, now, tc>>
    /\ UNCHANGED <<schedVars, cmdVars, dispVars>>

\* StopContainer after its second wait:
\* if err := client.waitForStop(c, timeout); err == nil { return "could not be stopped" }
StopContainerResult ==
    /\ cpc = "stop:result"
    /\ Return(IF aux.wait2 = "inspectError" THEN Nil ELSE CouldNotBeStopped)
    /\ UNCHANGED <<op, calls, now, aux, tc>>
    /\ UNCHANGED <<schedVars, cmdVars, dispVars>>

\* NetemContainer up to the sleep: startNetemContainer or
\* startNetemContainerIPFilter, which in a dry run do nothing
NetemContainer ==
    /\ cpc = "run" /\ op.kind = "netem"
    /\ IF op.dry
       THEN cpc' = "netem:sleep" /\ UNCHANGED aux
       ELSE cpc' = "exec:create" /\ aux' = [aux EXCEPT !.phase = "setup", !.step = 1]
    /\ UNCHANGED <<op, calls, result, now, tc>>
    /\ UNCHANGED <<schedVars, cmdVars, dispVars>>

\* execOnContainer: apiClient.ContainerExecCreate
ExecCreate ==
    /\ cpc = "exec:create"
    /\ \E ret \in {"ok", "error"} :
          /\ calls' = Append(calls, ApiCall("ContainerExecCreate", op.c.id,
                          [Privileged |-> TRUE, Cmd |-> Split(CurrentCommand)], ret))
          /\ IF ret = "ok"
             THEN cpc' = "exec:start" /\ UNCHANGED result
             ELSE Return(ThisError)
    /\ UNCHANGED <<op, now, aux, tc>>
    /\ UNCHANGED <<schedVars, cmdVars, dispVars>>

\* execOnContainer: apiClient.ContainerExecStart of the exec just created (the
\* exec is named by the place of its create call); then the next setup
\* command, the sleep, or the end of the teardown
ExecStart ==
    /\ cpc = "exec:start"
    /\ \E ret \in {"ok", "error"} :
          /\ calls' = Append(calls, ApiCall("ContainerExecStart", Len(calls), "", ret))
          /\ IF ret = "error"
             THEN Return(ThisError) /\ UNCHANGED <<aux, tc>>
             ELSE /\ tc' = TcApply(tc, Split(CurrentCommand))
                  /\ CASE aux.phase = "setup" /\ aux.step < Len(SetupCommands(op)) ->
                            /\ aux' = [aux EXCEPT !.step = aux.step + 1]
                            /\ cpc' = "exec:create"
                            /\ UNCHANGED result
                       [] aux.phase = "setup" /\ aux.step >= Len(SetupCommands(op)) ->
                            /\ cpc' = "netem:sleep"
                            /\ UNCHANGED <<aux, result>>
                       [] OTHER -> Return(Nil) /\ UNCHANGED aux
    /\ UNCHANGED <<op, now>>
    /\ UNCHANGED <<schedVars, cmdVars, dispVars>>

\* a NetemContainer that does not wait
NetemSleepSkipped ==
    /\ cpc = "netem:sleep"
    /\ cpc' = "netem:stop"
    /\ UNCHANGED <<op, calls, result, now, aux, tc>>
    /\ UNCHANGED <<schedVars, cmdVars, dispVars>>

\* NetemContainer: time.Sleep(duration)
NetemSleep ==
    /\ cpc = "netem:sleep"
    /\ Sleep(op.duration)
    /\ cpc' = "netem:stop"
    /\ UNCHANGED <<op, calls, result, aux, tc>>
    /\ UNCHANGED <<schedVars, cmdVars, dispVars>>

\* NetemContainer after the sleep: stopNetemContainer
NetemStop ==
    /\ cpc = "netem:stop"
    /\ IF op.dry
       THEN Return(Nil) /\ UNCHANGED aux
       ELSE /\ cpc' = "exec:create"
            /\ aux' = [aux EXCEPT !.phase = "teardown", !.step = 1]
            /\ UNCHANGED result
    /\ UNCHANGED <<op, calls, now, tc>>
    /\ UNCHANGED <<schedVars, cmdVars, dispVars>>

\* the scheduler does not run while the client is studied
ClientInit ==
    /\ SchedInit
    /\ gTestRun = FALSE
    /\ ClientIdle
    /\ CmdIdle
    /\ DispIdle

ClientNext ==
    \/ Invoke
    \/ ListContainers
    \/ ListInspectContainer
    \/ ListInspectImage
    \/ KillContainer
    \/ RemoveImage
    \/ RemoveContainer
    \/ PauseContainer
    \/ PauseSleep
    \/ PauseUnpause
    \/ StopContainer
    \/ WaitForStopTimeout
    \/ WaitForStopInspect
    \/ WaitForStopSleep
    \/ StopContainerKill
    \/ StopContainerResult
    \/ NetemContainer
    \/ ExecCreate
    \/ ExecStart
    \/ NetemSleep
    \/ NetemStop

ClientSpec == ClientInit /\ [][ClientNext]_vars

\* the calling task is scheduled again and again and every runtime call returns
FairClientSpec == ClientSpec /\ WF_vars(ClientNext)

-----------------------------------------------------------------------------
(* Claims about dockerClient, read off the calls made and the value returned *)

Done == cpc = "done"
NonDry(kind) == op.kind = kind /\ ~op.dry
Indices == DOMAIN calls
CallsTo(api) == {i \in Indices : calls[i].api = api}

\* C4: in a dry run every operation returns success and makes no runtime call.
C4_DryRunMakesNoCall ==
    op.dry => /\ calls = <<>>
              /\ Done => result = Nil

C4_Witness ==
    /\ Done /\ op.dry /\ op.kind = "netem" /\ op.targetIP # NoIP
    /\ now >= op.duration

IsKill(i, sig) ==
    /\ calls[i].api = "KillContainer"
    /\ calls[i].id = op.c.id
    /\ calls[i].arg = sig

\* C5: a stop that is not dry first kills with the value of the stop-signal
\* label, or with SIGTERM when there is no label; when its first wait ends by
\* the timeout, the container still running, a kill with SIGKILL follows; and
\* SIGKILL is never the first call.
C5_StopSignalThenSigkill ==
    NonDry("stop") =>
        /\ calls # <<>> =>
              IsKill(1, IF op.c.stopSignal # "" THEN op.c.stopSignal ELSE "SIGTERM")
        /\ (aux.wait1 = "timeout" /\ cpc # "stop:kill") =>
              \E i \in Indices : i > 1 /\ IsKill(i, "SIGKILL")
        /\ \A i \in Indices : IsKill(i, "SIGKILL") => i > 1 /\ calls[1].ret = "ok"

C5_Witness ==
    /\ Done /\ NonDry("stop") /\ op.c.stopSignal = "SIGUSR1" /\ op.timeout > 0
    /\ aux.wait1 = "timeout"
    /\ \E i \in Indices : IsKill(i, "SIGKILL")

\* C6: after SIGKILL the second wait decides: an inspect failure gives
\* success, an inspect that reports the container not running gives success,
\* and only a container still running when the wait times out gives the error
\* "could not be stopped".
C6_SecondWaitDecides ==
    (Done /\ NonDry("stop") /\ aux.wait2 # "none") =>
        /\ aux.wait2 = "inspectError" => result = Nil
        /\ aux.wait2 = "exited" => result = Nil
        /\ result = CouldNotBeStopped => aux.wait2 = "timeout"

\* C7: a pause that is not dry makes, when the pause call succeeds, exactly one
\* unpause call, for the same container and no sooner than the duration after
\* the pause call; when the pause call fails it makes none and returns the
\* error of the pause call.
C7_PauseThenOneUnpause ==
    NonDry("pause") =>
        LET unpauses == CallsTo("UnpauseContainer") IN
        /\ \A u \in unpauses :
              /\ calls[u].id = op.c.id
              /\ calls[1].api = "PauseContainer" /\ calls[1].ret = "ok"
              /\ calls[1].id = op.c.id
              /\ calls[u].t >= calls[1].t + op.duration
        /\ Cardinality(unpauses) <= 1
        /\ Done => IF calls[1].ret = "ok"
                   THEN Cardinality(unpauses) = 1
                   ELSE unpauses = {} /\ result = ErrorOf(1)

C7_Witness ==
    /\ Done /\ NonDry("pause") /\ op.duration = MaxDuration
    /\ CallsTo("UnpauseContainer") # {}

\* the argv of the teardown command, tc qdisc del dev <iface> root netem
TeardownArgv ==
    << <<"tc">>, <<"qdisc">>, <<"del">>, <<"dev">>, op.netInterface,
       <<"root">>, <<"netem">> >>

\* creates of the teardown exec, and all calls that belong to a teardown exec
TeardownCreates ==
    {i \in CallsTo("ContainerExecCreate") : calls[i].arg.Cmd = TeardownArgv}
TeardownCalls ==
    TeardownCreates \cup
    {i \in CallsTo("ContainerExecStart") : calls[i].id \in TeardownCreates}

\* the calls that apply a disruption and the calls that revert it
RevertCalls == CallsTo("UnpauseContainer") \cup TeardownCalls
ApplyCalls == Indices \ RevertCalls

\* how many setup commands a netem has
SetupCount == IF op.targetIP = NoIP THEN 1 ELSE 3

\* how many calls it takes to apply the operation's disruption
ApplyCallCount == IF op.kind = "pause" THEN 1 ELSE 2 * SetupCount

\* C8: a pause or netem whose apply succeeded and whose revert failed returns
\* the error of the revert, never success; and no revert call is made unless
\* every apply call was made and succeeded.
C8_LeakIsReported ==
    op.kind \in {"pause", "netem"} =>
        /\ \A r \in RevertCalls :
              /\ Cardinality(ApplyCalls) = ApplyCallCount
              /\ \A a \in ApplyCalls : a < r /\ calls[a].ret = "ok"
        /\ \A r \in RevertCalls :
              (Done /\ calls[r].ret = "error") => result = ErrorOf(r)

C8_Witness ==
    /\ Done /\ op.kind = "netem" /\ op.targetIP # NoIP
    /\ \E r \in TeardownCalls :
          calls[r].api = "ContainerExecStart" /\ calls[r].ret = "error"
    /\ result.status = "error"

\* C9: a netem that is not dry issues the teardown command at least once when
\* every setup exec succeeded, and no sooner than the duration after the last
\* setup exec; when a setup exec fails it issues no teardown and returns the
\* error of that exec.
C9_NetemTeardown ==
    NonDry("netem") =>
        LET setupOk == {i \in ApplyCalls : calls[i].ret = "ok"}
            setupFailed == {i \in ApplyCalls : calls[i].ret = "error"} IN
        /\ \A td \in TeardownCreates :
              /\ Cardinality(setupOk) = 2 * SetupCount
              /\ \A i \in setupOk : calls[td].t >= calls[i].t + op.duration
        /\ Done => IF setupFailed = {}
                   THEN TeardownCreates # {}
                   ELSE /\ TeardownCalls = {}
                        /\ \E i \in setupFailed : result = ErrorOf(i)

C9_Witness ==
    /\ Done /\ NonDry("netem") /\ op.targetIP # NoIP
    /\ op.duration = MaxDuration
    /\ TeardownCreates # {}
    /\ result = Nil

\* C10: when a netem setup step fails and the teardown is skipped, nothing
\* that an earlier setup step of the invocation added is left in the
\* container.
C10_NothingLeftWhenSetupFails ==
    (/\ Done /\ NonDry("netem")
     /\ \E i \in ApplyCalls : calls[i].ret = "error") => tc = {}

\* the argv of the tc commands of one netem invocation, in the order of the
\* claim: setup (one command, or three with a target IP), then the teardown
TcPrefix(what, verb) == << <<"tc">>, <<what>>, <<verb>>, <<"dev">>, op.netInterface >>
NetemSpecArgv == Split(ToLower(op.netemCmd))
ExpectedArgvs ==
    IF op.targetIP = NoIP
    THEN << TcPrefix("qdisc", "add") \o << <<"root">>, <<"netem">> >> \o NetemSpecArgv,
            TcPrefix("qdisc", "del") \o << <<"root">>, <<"netem">> >> >>
    ELSE << TcPrefix("qdisc", "add") \o << <<"root">>, <<"handle">>, <<"1:">>, <<"prio">> >>,
            TcPrefix("qdisc", "add") \o << <<"parent">>, <<"1:3">>, <<"netem">> >>
                \o NetemSpecArgv,
            TcPrefix("filter", "add")
                \o << <<"protocol">>, <<"ip">>, <<"parent">>, <<"1:0">>, <<"prio">>,
                      <<"3">>, <<"u32">>, <<"match">>, <<"ip">>, <<"dport">>,
                      op.targetIP, <<"flowid">>, <<"1:3">> >>,
            TcPrefix("qdisc", "del") \o << <<"root">>, <<"netem">> >> >>

-----------------------------------------------------------------------------
(***************************************************************************)
(* Part 3: the command handlers of main.go                                 *)
(*                                                                         *)
(* In this part a string is a sequence of characters and a duration is a   *)
(* number of milliseconds.  The value of --target is a sequence of pieces: *)
(* decimal numbers and dots.                                               *)
(***************************************************************************)

\* program constants of main.go
DefaultSignal == "SIGKILL"
Re2Prefix == <<"r", "e", "2", ":">>

LinuxSignals ==
    { "SIGHUP", "SIGINT", "SIGQUIT", "SIGILL", "SIGTRAP", "SIGIOT", "SIGBUS",
      "SIGFPE", "SIGKILL", "SIGUSR1", "SIGSEGV", "SIGUSR2", "SIGPIPE",
      "SIGALRM", "SIGTERM", "SIGSTKFLT", "SIGCHLD", "SIGCONT", "SIGSTOP",
      "SIGTSTP", "SIGTTIN", "SIGTTOU", "SIGURG", "SIGXCPU", "SIGXFSZ",
      "SIGVTALRM", "SIGPROF", "SIGWINCH", "SIGIO", "SIGPWR" }

\* the character classes [a-zA-Z] and [0-9]
LowerLetters ==
    { "a", "b", "c", "d", "e", "f", "g", "h", "i", "j", "k", "l", "m",
      "n", "o", "p", "q", "r", "s", "t", "u", "v", "w", "x", "y", "z" }
UpperLetters ==
    { "A", "B", "C", "D", "E", "F", "G", "H", "I", "J", "K", "L", "M",
      "N", "O", "P", "Q", "R", "S", "T", "U", "V", "W", "X", "Y", "Z" }
Letters == LowerLetters \cup UpperLetters
DigitChars == <<"0", "1", "2", "3", "4", "5", "6", "7", "8", "9">>
Digits == {DigitChars[i] : i \in DOMAIN DigitChars}
DigitValue(c) == (CHOOSE i \in DOMAIN DigitChars : DigitChars[i] = c) - 1

\* the characters of a string
Chars(str) == {str[i] : i \in DOMAIN str}

\* the number of leading characters of s that are in set / not in set
RECURSIVE SpanIn(_, _)
SpanIn(s, set) ==
    IF s # <<>> /\ s[1] \in set THEN 1 + SpanIn(Tail(s), set) ELSE 0

RECURSIVE SpanNotIn(_, _)
SpanNotIn(s, set) ==
    IF s # <<>> /\ s[1] \notin set THEN 1 + SpanNotIn(Tail(s), set) ELSE 0

\* strings.HasPrefix
HasPrefix(s, prefix) ==
    Len(s) >= Len(prefix) /\ SubSeq(s, 1, Len(prefix)) = prefix

\* strings.Trim(s, cutset): s without its leading and its trailing characters
\* that occur in cutset
RECURSIVE TrimLeft(_, _)
TrimLeft(s, cutset) ==
    IF s # <<>> /\ s[1] \in Chars(cutset) THEN TrimLeft(Tail(s), cutset) ELSE s

RECURSIVE TrimRight(_, _)
TrimRight(s, cutset) ==
    IF s # <<>> /\ s[Len(s)] \in Chars(cutset)
    THEN TrimRight(SubSeq(s, 1, Len(s) - 1), cutset)
    ELSE s

Trim(s, cutset) == TrimRight(TrimLeft(s, cutset), cutset)

\* a selector that looks for the prefix in the first name of a list too
getNamesOrPatternPrefixFirst(args) ==
    IF args # <<>> /\ HasPrefix(args[1], Re2Prefix)
    THEN [names |-> IF Len(args) > 1 THEN args ELSE <<>>,
          pattern |-> Trim(args[1], Re2Prefix)]
    ELSE [names |-> IF Len(args) > 1 THEN args ELSE <<>>, pattern |-> <<>>]

\* getNamesOrPattern: the names and the pattern of the positional arguments
getNamesOrPattern(args) ==
    IF args # <<>>
    THEN IF Len(args) > 1
         THEN [names |-> args, pattern |-> <<>>]
         ELSE IF HasPrefix(args[1], Re2Prefix)
              THEN [names |-> <<>>, pattern |-> Trim(args[1], Re2Prefix)]
              ELSE [names |-> <<>>, pattern |-> <<>>]
    ELSE [names |-> <<>>, pattern |-> <<>>]

\* the value of a string of decimal digits
RECURSIVE DecimalValue(_)
DecimalValue(ds) ==
    IF ds = <<>> THEN 0
    ELSE 10 * DecimalValue(SubSeq(ds, 1, Len(ds) - 1)) + DigitValue(ds[Len(ds)])

\* milliseconds in a unit of time.ParseDuration, 0 for what is not one of the
\* units ms, s, m, h
UnitMs(unit) ==
    CASE unit = <<"m", "s">> -> 1
      [] unit = <<"s">> -> 1000
      [] unit = <<"m">> -> 60000
      [] unit = <<"h">> -> 3600000
      [] OTHER -> 0

BadDuration == [ok |-> FALSE, d |-> 0]

\* time.ParseDuration after the sign: one or more groups of digits followed
\* by a unit; a unit ends at the next digit or dot
RECURSIVE ParseSegments(_, _)
ParseSegments(s, acc) ==
    IF s = <<>> THEN [ok |-> TRUE, d |-> acc]
    ELSE LET n == SpanIn(s, Digits)
             rest == SubSeq(s, n + 1, Len(s))
             u == SpanNotIn(rest, Digits \cup {"."})
             unit == SubSeq(rest, 1, u)
         IN  IF n = 0 \/ u = 0 \/ UnitMs(unit) = 0 THEN BadDuration
             ELSE ParseSegments(SubSeq(rest, u + 1, Len(rest)),
                                acc + DecimalValue(SubSeq(s, 1, n)) * UnitMs(unit))

\* time.ParseDuration: [-+]?([0-9]+[a-z]+)+, or "0"; the empty string and a
\* number without unit are errors
ParseDuration(s) ==
    IF s = <<>> THEN BadDuration
    ELSE LET neg == s[1] = "-"
             body == IF s[1] \in {"-", "+"} THEN Tail(s) ELSE s
             r == ParseSegments(body, 0)
         IN  IF body = <<"0">> THEN [ok |-> TRUE, d |-> 0]
             ELSE IF body = <<>> THEN BadDuration
             ELSE IF r.ok /\ neg THEN [ok |-> TRUE, d |-> 0 - r.d]
             ELSE r

\* the place of the first letter of s at or after i, 0 when there is none
RECURSIVE FirstLetter(_, _)
FirstLetter(s, i) ==
    IF i > Len(s) THEN 0
    ELSE IF s[i] \in Letters THEN i
    ELSE FirstLetter(s, i + 1)

\* regexp.MustCompile("[a-zA-Z]+[0-9]{0,2}").FindString(s): the leftmost
\* match, as many letters as there are and then at most two digits; the empty
\* string when nothing matches
FindString(s) ==
    LET i == FirstLetter(s, 1)
        from == SubSeq(s, i, Len(s))
        l == SpanIn(from, Letters)
        d == SpanIn(SubSeq(from, l + 1, Len(from)), Digits)
    IN  IF i = 0 THEN <<>>
        ELSE SubSeq(from, 1, l + (IF d > 2 THEN 2 ELSE d))

\* the value of a piece of --target as a decimal number, -1 when it is none
OctetValue(x) ==
    CASE x = "0" -> 0
      [] x = "1" -> 1
      [] x = "10" -> 10
      [] x = "256" -> 256
      [] OTHER -> 0 - 1

\* a parse that takes four numbers between three dots whatever their size
ParseIPAnyOctet(t) ==
    IF /\ Len(t) = 7
       /\ \A i \in 1..7 : IF i % 2 = 0 THEN t[i] = "."
                                       ELSE OctetValue(t[i]) >= 0
    THEN <<OctetValue(t[1]), OctetValue(t[3]), OctetValue(t[5]), OctetValue(t[7])>>
    ELSE NoIP

\* net.ParseIP for the dotted form: four numbers 0..255 between three dots,
\* nil for everything else
ParseIP(t) ==
    IF /\ Len(t) = 7
       /\ \A i \in 1..7 : IF i % 2 = 0 THEN t[i] = "."
                                       ELSE OctetValue(t[i]) \in 0..255
    THEN <<OctetValue(t[1]), OctetValue(t[3]), OctetValue(t[5]), OctetValue(t[7])>>
    ELSE NoIP

\* ---- the command lines studied ----

Eth0 == <<"e", "t", "h", "0">>
Web == <<"w", "e", "b">>
Db == <<"d", "b">>

\* no argument, a name, patterns, lists of names
ArgLists ==
    { <<>>,
      <<Web>>,
      <<Re2Prefix \o <<"^", "w">>>>,
      <<Re2Prefix \o <<"r", "e", "d", "i", "s">>>>,
      <<Web, Db>>,
      <<Re2Prefix \o <<"^", "w">>, Db>> }

\* --interval: missing, 1s, not a duration
IntervalStrings == { <<>>, <<"1", "s">>, <<"x">> }

\* --duration: missing, 500ms, 1s, 2s, 0s, -1s, a number without unit
DurationStrings ==
    { <<>>, <<"5", "0", "0", "m", "s">>, <<"1", "s">>, <<"2", "s">>,
      <<"0", "s">>, <<"-", "1", "s">>, <<"1">> }

\* --interface: eth0, lo, the empty name, "eth 0", "eth;", "0eth", "eth123"
InterfaceStrings ==
    { Eth0, <<"l", "o">>, <<>>, <<"e", "t", "h", " ", "0">>,
      <<"e", "t", "h", ";">>, <<"0", "e", "t", "h">>,
      <<"e", "t", "h", "1", "2", "3">> }

\* --target: missing, 10.10.0.1, 256.0.0.1
TargetStrings ==
    { <<>>, <<"10", ".", "10", ".", "0", ".", "1">>,
      <<"256", ".", "0", ".", "0", ".", "1">> }

\* a command line with the default value of every flag
DefaultLine ==
    [command |-> "kill", parent |-> TRUE, args |-> <<>>, interval |-> <<"1", "s">>,
     signal |-> DefaultSignal, duration |-> <<>>, netInterface |-> Eth0,
     target |-> <<>>, amount |-> 100, variation |-> 10, correlation |-> 20,
     force |-> TRUE, links |-> TRUE, volumes |-> TRUE, time |-> 10]

KillLines ==
    { [DefaultLine EXCEPT !.command = "kill", !.args = a, !.interval = i,
                          !.signal = s] :
        a \in ArgLists, i \in IntervalStrings,
        s \in {"SIGKILL", "SIGTERM", "SIGFOO", ""} }

NetemLines ==
    { [DefaultLine EXCEPT !.command = "netem", !.args = <<Web>>, !.interval = i,
                          !.duration = d, !.netInterface = n, !.target = t,
                          !.amount = a, !.variation = v, !.correlation = c] :
        i \in IntervalStrings, d \in DurationStrings, n \in InterfaceStrings,
        t \in TargetStrings, a \in {0, 100}, v \in {0 - 1, 10, 200},
        c \in {0 - 1, 20, 101} }
    \cup { [DefaultLine EXCEPT !.command = "netem", !.parent = FALSE] }

PauseLines ==
    { [DefaultLine EXCEPT !.command = "pause", !.args = a, !.interval = i,
                          !.duration = d] :
        a \in ArgLists, i \in IntervalStrings, d \in DurationStrings }

RemoveLines ==
    { [DefaultLine EXCEPT !.command = "rm", !.args = a, !.interval = i,
                          !.force = f, !.links = l, !.volumes = v] :
        a \in ArgLists, i \in IntervalStrings, f \in BOOLEAN, l \in BOOLEAN,
        v \in BOOLEAN }

StopLines ==
    { [DefaultLine EXCEPT !.command = "stop", !.args = a, !.interval = i,
                          !.time = t] :
        a \in ArgLists, i \in IntervalStrings, t \in {0, 10} }

CommandLines == KillLines \cup NetemLines \cup PauseLines \cup RemoveLines \cup StopLines

\* ---- the handlers ----

\* the handler returns an error: app.Run returns it and main ends in
\* log.Fatal(err)
ReturnError ==
    /\ cmdPc' = "rejected"
    /\ exitStatus' = "exit1"
    /\ UNCHANGED handed

\* runChaosCommand(cmd, names, pattern, chaosFn) is called
runChaosCommand(cmd, np) ==
    /\ cmdPc' = "scheduled"
    /\ handed' = [cmd |-> cmd, names |-> np.names, pattern |-> np.pattern]
    /\ UNCHANGED exitStatus

\* beforeCommand, the Before hook of every chaos command
beforeCommand ==
    /\ cmdPc = "before"
    /\ IF cli.interval = <<>> \/ ~ParseDuration(cli.interval).ok
       THEN ReturnError /\ UNCHANGED gInterval
       ELSE /\ gInterval' = ParseDuration(cli.interval).d
            /\ cmdPc' = "action"
            /\ UNCHANGED <<handed, exitStatus>>
    /\ UNCHANGED cli
    /\ UNCHANGED <<clientVars, dispVars>>
    /\ UNCHANGED histVars
    /\ UNCHANGED <<gTestRun, tickReady, timerFired, timerPc, dcClosed, recvPc,
                   gWG, cycle, sigChan, handlerPc>>

\* a kill that takes any signal name
killAnySignal ==
    /\ cmdPc = "action" /\ cli.command = "kill"
    /\ runChaosCommand([kind |-> "kill", signal |-> cli.signal],
                       getNamesOrPattern(cli.args))
    /\ UNCHANGED <<cli, gInterval>>
    /\ UNCHANGED <<clientVars, dispVars>>
    /\ UNCHANGED histVars
    /\ UNCHANGED <<gTestRun, tickReady, timerFired, timerPc, dcClosed, recvPc,
                   gWG, cycle, sigChan, handlerPc>>

\* kill
kill ==
    /\ cmdPc = "action" /\ cli.command = "kill"
    /\ IF cli.signal \notin LinuxSignals
       THEN ReturnError
       ELSE runChaosCommand([kind |-> "kill", signal |-> cli.signal],
                            getNamesOrPattern(cli.args))
    /\ UNCHANGED <<cli, gInterval>>
    /\ UNCHANGED <<clientVars, dispVars>>
    /\ UNCHANGED histVars
    /\ UNCHANGED <<gTestRun, tickReady, timerFired, timerPc, dcClosed, recvPc,
                   gWG, cycle, sigChan, handlerPc>>

\* netemDelay: the duration and the interface of the parent command netem,
\* then amount, variation and correlation of the subcommand delay
netemDelay ==
    /\ cmdPc = "action" /\ cli.command = "netem"
    /\ LET durationString == IF cli.parent THEN cli.duration ELSE <<>>
           duration == ParseDuration(durationString)
           netInterface == IF cli.parent THEN cli.netInterface ELSE Eth0
           ip == IF cli.parent THEN ParseIP(cli.target) ELSE NoIP
       IN  IF \/ durationString = <<>>
              \/ ~duration.ok
              \/ cli.parent /\ netInterface # FindString(netInterface)
              \/ cli.amount <= 0
              \/ cli.variation < 0 \/ cli.variation > cli.amount
              \/ cli.correlation < 0 \/ cli.correlation > 100
           THEN ReturnError
           ELSE runChaosCommand([kind |-> "netem", netInterface |-> netInterface,
                                 ip |-> ip, duration |-> duration.d,
                                 amount |-> cli.amount,
                                 variation |-> cli.variation,
                                 correlation |-> cli.correlation],
                                getNamesOrPattern(cli.args))
    /\ UNCHANGED <<cli, gInterval>>
    /\ UNCHANGED <<clientVars, dispVars>>
    /\ UNCHANGED histVars
    /\ UNCHANGED <<gTestRun, tickReady, timerFired, timerPc, dcClosed, recvPc,
                   gWG, cycle, sigChan, handlerPc>>

\* pause
pause ==
    /\ cmdPc = "action" /\ cli.command = "pause"
    /\ IF cli.duration = <<>> \/ ~ParseDuration(cli.duration).ok
       THEN ReturnError
       ELSE runChaosCommand([kind |-> "pause",
                             duration |-> ParseDuration(cli.duration).d],
                            getNamesOrPattern(cli.args))
    /\ UNCHANGED <<cli, gInterval>>
    /\ UNCHANGED <<clientVars, dispVars>>
    /\ UNCHANGED histVars
    /\ UNCHANGED <<gTestRun, tickReady, timerFired, timerPc, dcClosed, recvPc,
                   gWG, cycle, sigChan, handlerPc>>

\* remove
remove ==
    /\ cmdPc = "action" /\ cli.command = "rm"
    /\ runChaosCommand([kind |-> "rm", force |-> cli.force, links |-> cli.links,
                        volumes |-> cli.volumes],
                       getNamesOrPattern(cli.args))
    /\ UNCHANGED <<cli, gInterval>>
    /\ UNCHANGED <<clientVars, dispVars>>
    /\ UNCHANGED histVars
    /\ UNCHANGED <<gTestRun, tickReady, timerFired, timerPc, dcClosed, recvPc,
                   gWG, cycle, sigChan, handlerPc>>

\* stop
stop ==
    /\ cmdPc = "action" /\ cli.command = "stop"
    /\ runChaosCommand([kind |-> "stop", waitTime |-> cli.time],
                       getNamesOrPattern(cli.args))
    /\ UNCHANGED <<cli, gInterval>>
    /\ UNCHANGED <<clientVars, dispVars>>
    /\ UNCHANGED histVars
    /\ UNCHANGED <<gTestRun, tickReady, timerFired, timerPc, dcClosed, recvPc,
                   gWG, cycle, sigChan, handlerPc>>

\* app.Run(os.Args) with one of the command lines; the scheduler has not
\* started and the client is not running
CmdInit ==
    /\ SchedInit
    /\ gTestRun = FALSE
    /\ ClientIdle
    /\ cli \in CommandLines
    /\ cmdPc = "before"
    /\ gInterval = 0
    /\ handed = NoHanded
    /\ DispIdle

CmdNext ==
    \/ beforeCommand
    \/ kill
    \/ netemDelay
    \/ pause
    \/ remove
    \/ stop

CmdSpec == CmdInit /\ [][CmdNext]_vars

-----------------------------------------------------------------------------
(* Claims about the command handlers *)

Scheduled == cmdPc = "scheduled"
Rejected == cmdPc = "rejected"

\* the duration strings of the command lines that are well formed
GoodDurations ==
    { <<"5", "0", "0", "m", "s">>, <<"1", "s">>, <<"2", "s">>, <<"0", "s">>,
      <<"-", "1", "s">> }

\* a command line with one of the faults of claim C12
BadLine ==
    \/ cli.interval \notin GoodDurations
    \/ cli.command = "kill" /\ cli.signal \notin LinuxSignals
    \/ cli.command \in {"netem", "pause"} /\ cli.duration \notin GoodDurations
    \/ cli.command = "netem" /\ ~cli.parent
    \/ cli.command = "netem" /\ cli.amount <= 0
    \/ cli.command = "netem" /\ cli.variation \notin 0..cli.amount
    \/ cli.command = "netem" /\ cli.correlation \notin 0..100

\* C12: a command line with a kill signal outside the signal table, a netem
\* amount <= 0, a variation outside [0, amount], a correlation outside
\* [0, 100], or a missing or unparseable interval or duration is never handed
\* to runChaosCommand (no ticker is created, no chaos function is called), and
\* when its handler has returned the command has ended with an error.
C12_InvalidNeverScheduled ==
    BadLine =>
        /\ ~Scheduled
        /\ handed = NoHanded
        /\ cmdPc \in {"before", "action", "rejected"}
        /\ Rejected => exitStatus = "exit1"
        /\ (cmdPc = "action") => cli.interval \in GoodDurations

C12_Witness ==
    /\ Rejected
    /\ cli.command = "netem" /\ cli.parent
    /\ cli.interval \in GoodDurations /\ cli.duration \in GoodDurations
    /\ cli.netInterface = Eth0
    /\ cli.amount > 0 /\ cli.correlation \in 0..100
    /\ cli.variation > cli.amount

\* C13: every pause or netem delay command handed to runChaosCommand has
\* 0 < duration < interval.
C13_DurationWithinInterval ==
    (Scheduled /\ handed.cmd.kind \in {"pause", "netem"}) =>
        /\ 0 < handed.cmd.duration
        /\ handed.cmd.duration < gInterval

\* s is, as a whole, one or more letters followed by at most two digits
MatchesEntirely(s) ==
    \E k \in 1..Len(s) :
        /\ \A i \in 1..k : s[i] \in Letters
        /\ \A i \in (k + 1)..Len(s) : s[i] \in Digits
        /\ Len(s) - k <= 2

\* C14: a netem command whose interface name is not, in its entirety, a match
\* of [a-zA-Z]+[0-9]{0,2} is never handed to runChaosCommand, so no exec is
\* created with an argv built from it.
C14_BadInterfaceRejected ==
    (cli.command = "netem" /\ ~MatchesEntirely(cli.netInterface)) =>
        ~Scheduled /\ handed = NoHanded

OneArg == Len(cli.args) = 1

\* C15: exactly one positional argument that does not start with "re2:" gives
\* the names list holding that argument and an empty pattern.
C15_SingleNameSelected ==
    (Scheduled /\ OneArg /\ ~HasPrefix(cli.args[1], Re2Prefix)) =>
        /\ handed.names = <<cli.args[1]>>
        /\ handed.pattern = <<>>

\* C16: exactly one positional argument that starts with "re2:" gives the
\* pattern that is the argument without its first four characters, nothing
\* else removed.
C16_PatternIsArgumentWithoutPrefix ==
    (Scheduled /\ OneArg /\ HasPrefix(cli.args[1], Re2Prefix)) =>
        handed.pattern = SubSeq(cli.args[1], Len(Re2Prefix) + 1, Len(cli.args[1]))

\* C17: names and pattern are never both non-empty; no argument gives both
\* empty; two or more arguments give the names list equal to the arguments,
\* in order, and an empty pattern, also when an argument starts with "re2:".
C17_OneSelectorForm ==
    Scheduled =>
        /\ ~(handed.names # <<>> /\ handed.pattern # <<>>)
        /\ cli.args = <<>> => handed.names = <<>> /\ handed.pattern = <<>>
        /\ Len(cli.args) >= 2 => handed.names = cli.args /\ handed.pattern = <<>>

C17_Witness ==
    /\ Scheduled
    /\ Len(cli.args) = 2
    /\ HasPrefix(cli.args[1], Re2Prefix)
    /\ handed.names = cli.args

-----------------------------------------------------------------------------
(* Further claims about dockerClient *)

\* the containers of a listing that the filter of the call accepts, in the
\* order of the listing
Accepted(l) ==
    LET fn(c) == c.id \in op.filter IN SelectSeq(l, fn)

SomeCallFailed == \E i \in Indices : calls[i].ret = "error"

\* C21: ListContainers returns the running containers that the filter accepts,
\* in the order of the runtime's listing, when the list call and every inspect
\* succeeded, each listed container having been inspected and its image too;
\* when a call fails it is the last call made, and the error of that call is
\* returned with a nil list.
C21_ListAllOrNothing ==
    op.kind = "list" =>
        /\ \A i \in Indices : calls[i].ret = "error" => i = Len(calls) /\ Done
        /\ Done =>
              IF SomeCallFailed
              THEN result = ErrorOf(Len(calls)) /\ aux.out = NoList
              ELSE /\ result = Nil
                   /\ aux.out = [isNil |-> FALSE, cs |-> Accepted(aux.listing)]
                   /\ Len(calls) = 1 + 2 * Len(aux.listing)
                   /\ \A k \in DOMAIN aux.listing :
                         /\ calls[2 * k].api = "InspectContainer"
                         /\ calls[2 * k].id = aux.listing[k].id
                         /\ calls[2 * k + 1].api = "InspectImage"
                         /\ calls[2 * k + 1].id = aux.listing[k].image

C21_Witness ==
    /\ Done /\ op.kind = "list" /\ ~SomeCallFailed
    /\ Len(aux.listing) = 2
    /\ op.filter = {"def456"}
    /\ aux.out.cs = <<aux.listing[1]>>

\* C22: a remove that is not dry makes one ContainerRemove call for the
\* container whose options carry the flags by meaning: Force is force,
\* RemoveLinks is links, RemoveVolumes is volumes.
C22_RemoveFlagsByMeaning ==
    (NonDry("rm") /\ Done) =>
        /\ Len(calls) = 1
        /\ calls[1].api = "ContainerRemove"
        /\ calls[1].id = op.c.id
        /\ calls[1].arg.Force = op.force
        /\ calls[1].arg.RemoveLinks = op.links
        /\ calls[1].arg.RemoveVolumes = op.volumes

-----------------------------------------------------------------------------
(***************************************************************************)
(* Part 4: one dispatcher cycle                                            *)
(*                                                                         *)
(* chaosFn(client, names, pattern, cmd): list the running containers,      *)
(* keep those the names or the pattern select, keep one of them when the   *)
(* random flag is set, run the action of the command on each, and return   *)
(* the first error.  Strings are sequences of characters as in part 3.     *)
(***************************************************************************)

Web2 == <<"w", "e", "b", "2">>
Ghost == <<"g", "h", "o", "s", "t">>

\* the containers of the runtime, named as the runtime names them
NamedContainers ==
    { [id |-> "c1", name |-> <<"/">> \o Web],
      [id |-> "c2", name |-> <<"/">> \o Web2],
      [id |-> "c3", name |-> <<"/">> \o Db] }

\* the sequences without repetition over a set
Arrangements(S) ==
    {l \in UNION {[1..n -> S] : n \in 0..Cardinality(S)} :
        \A i, j \in DOMAIN l : i # j => l[i] # l[j]}

\* what the runtime may list as running at a tick
RunningLists == Arrangements(NamedContainers)

\* the names, patterns and flags of the cycles studied
CycleNames == { <<>>, <<Web>>, <<Db, Web>>, <<Ghost>> }
CyclePatterns == { <<>>, <<"^", "w">>, <<"b">>, <<"^", "x">> }

\* the display name: the runtime's name without its leading "/"
DisplayName(c) ==
    IF c.name # <<>> /\ c.name[1] = "/" THEN Tail(c.name) ELSE c.name

\* s has sub as a substring
Contains(s, sub) ==
    \E i \in 1..(Len(s) - Len(sub) + 1) : SubSeq(s, i, i + Len(sub) - 1) = sub

\* a match of the regular expression somewhere in s, for the expressions made
\* of an optional "^" and literal characters
MatchString(pattern, s) ==
    IF pattern # <<>> /\ pattern[1] = "^"
    THEN HasPrefix(s, Tail(pattern))
    ELSE Contains(s, pattern)

\* a resolver that looks at the pattern before the names
SelectsPatternFirst(names, pattern, c) ==
    IF pattern # <<>> THEN MatchString(pattern, DisplayName(c))
    ELSE IF names # <<>> THEN DisplayName(c) \in Chars(names)
    ELSE TRUE

\* the precedence of the resolver: names, else pattern, else every container
Selects(names, pattern, c) ==
    IF names # <<>> THEN DisplayName(c) \in Chars(names)
    ELSE IF pattern # <<>> THEN MatchString(pattern, DisplayName(c))
    ELSE TRUE

\* the listed containers that are selected, in the order of the listing
Matched(names, pattern, listing) ==
    LET fn(c) == Selects(names, pattern, c) IN SelectSeq(listing, fn)

\* a choice that keeps every match whatever the random flag says
PickEvery(random, matched) == {matched}

\* the target lists the resolver may return: with the random flag and a
\* match, any single match; otherwise all the matches
Pick(random, matched) ==
    IF random /\ matched # <<>>
    THEN {<<matched[i]>> : i \in DOMAIN matched}
    ELSE {matched}

\* the error of the list call of a cycle
ListError == [status |-> "error", from |-> 0]

\* the result of a cycle whose targets were all attempted: the first error,
\* nil when there was none
FirstError(outcomes) ==
    IF \E k \in DOMAIN outcomes : outcomes[k] = "error"
    THEN ErrorOf(CHOOSE k \in DOMAIN outcomes :
                    /\ outcomes[k] = "error"
                    /\ \A j \in 1..(k - 1) : outcomes[j] = "ok")
    ELSE Nil

\* the cycle resolves its targets: the list call fails and the cycle returns
\* that error, or the running containers are listed, matched and picked; a
\* cycle without target returns at once
CycleResolve ==
    /\ disp.pc = "resolve"
    /\ \/ disp' = [disp EXCEPT !.pc = "done", !.result = ListError]
       \/ \E l \in RunningLists :
            LET m == Matched(disp.names, disp.pattern, l) IN
            \E t \in Pick(disp.random, m) :
               disp' = [disp EXCEPT !.listing = l, !.matched = m, !.targets = t,
                                    !.pc = IF t = <<>> THEN "done" ELSE "act",
                                    !.result = IF t = <<>> THEN Nil ELSE NoResult]
    /\ UNCHANGED <<schedVars, clientVars, cmdVars>>

\* an executor that gives up at the first target that fails
CycleActStopAtError ==
    /\ disp.pc = "act"
    /\ \E ret \in {"ok", "error"} :
          LET o == Append(disp.outcomes, ret) IN
          disp' = [disp EXCEPT
                     !.outcomes = o,
                     !.pc = IF Len(o) = Len(disp.targets) \/ ret = "error"
                            THEN "done" ELSE "act",
                     !.result = IF Len(o) = Len(disp.targets) \/ ret = "error"
                                THEN FirstError(o) ELSE NoResult]
    /\ UNCHANGED <<schedVars, clientVars, cmdVars>>

\* the executor runs the action on the next target, which succeeds or fails;
\* after the last target the cycle returns the first error
CycleAct ==
    /\ disp.pc = "act"
    /\ \E ret \in {"ok", "error"} :
          LET o == Append(disp.outcomes, ret) IN
          disp' = [disp EXCEPT
                     !.outcomes = o,
                     !.pc = IF Len(o) = Len(disp.targets) THEN "done" ELSE "act",
                     !.result = IF Len(o) = Len(disp.targets)
                                THEN FirstError(o) ELSE NoResult]
    /\ UNCHANGED <<schedVars, clientVars, cmdVars>>

\* a cycle task calls chaosFn with the names and the pattern of the command
CycleInit ==
    /\ SchedInit
    /\ gTestRun = FALSE
    /\ ClientIdle
    /\ CmdIdle
    /\ \E n \in CycleNames, p \in CyclePatterns, r \in BOOLEAN :
          disp = [pc |-> "resolve", names |-> n, pattern |-> p, random |-> r,
                  listing |-> <<>>, matched |-> <<>>, targets |-> <<>>,
                  outcomes |-> <<>>, result |-> NoResult]

CycleNext ==
    \/ CycleResolve
    \/ CycleAct

CycleSpec == CycleInit /\ [][CycleNext]_vars

-----------------------------------------------------------------------------
(* Claims about the dispatcher cycle *)

\* the cycle has listed the running containers and resolved its targets
Resolved == disp.pc \in {"act", "done"} /\ disp.result # ListError

Elements(l) == {l[i] : i \in DOMAIN l}

\* C23: the target set of a cycle is the set of the running containers that
\* match the selector: with names, those whose name, its leading "/" left
\* out, is one of the names, whatever the pattern; else with a pattern, those
\* whose name matches it; else all of them.  Without the random flag all of
\* them are targets, and a cycle that matches nothing returns success without
\* acting.
C23_TargetSetIsTheMatch ==
    Resolved =>
        /\ Elements(disp.matched) =
              {c \in Elements(disp.listing) :
                  IF disp.names # <<>>
                  THEN \E i \in DOMAIN disp.names :
                          c.name \in {disp.names[i], <<"/">> \o disp.names[i]}
                  ELSE IF disp.pattern # <<>>
                       THEN MatchString(disp.pattern, DisplayName(c))
                       ELSE TRUE}
        /\ ~disp.random => disp.targets = disp.matched
        /\ disp.matched = <<>> =>
              disp.pc = "done" /\ disp.result = Nil /\ disp.outcomes = <<>>

C23_Witness ==
    /\ disp.pc = "done" /\ Resolved /\ ~disp.random
    /\ disp.names = <<Db, Web>> /\ disp.pattern = <<"^", "w">>
    /\ Len(disp.listing) = 3
    /\ Len(disp.targets) = 2

\* C24: with the random flag a cycle acts on at most one container, which is
\* one of the matches, and on exactly one when there is a match.
C24_RandomPicksOne ==
    (Resolved /\ disp.random) =>
        /\ Len(disp.targets) <= 1
        /\ Len(disp.outcomes) <= 1
        /\ Elements(disp.targets) \subseteq Elements(disp.matched)
        /\ disp.matched # <<>> => Len(disp.targets) = 1
        /\ (disp.matched # <<>> /\ disp.pc = "done") => Len(disp.outcomes) = 1

C24_Witness ==
    /\ disp.pc = "done" /\ Resolved /\ disp.random
    /\ Len(disp.matched) = 3
    /\ disp.targets = <<disp.matched[2]>>
    /\ Len(disp.outcomes) = 1

\* C25: a cycle attempts every target, also after the action on an earlier
\* target failed, and returns the first error met: success only when the
\* action succeeded on every target.
C25_AllAttemptedFirstError ==
    (Resolved /\ disp.pc = "done") =>
        /\ Len(disp.outcomes) = Len(disp.targets)
        /\ disp.result = Nil <=> \A k \in DOMAIN disp.outcomes : disp.outcomes[k] = "ok"
        /\ disp.result # Nil =>
              /\ disp.result.status = "error"
              /\ disp.result.from \in DOMAIN disp.outcomes
              /\ disp.outcomes[disp.result.from] = "error"
              /\ \A j \in 1..(disp.result.from - 1) : disp.outcomes[j] = "ok"

C25_Witness ==
    /\ disp.pc = "done" /\ Resolved
    /\ disp.outcomes = <<"ok", "error", "ok">>
    /\ disp.result = ErrorOf(2)

-----------------------------------------------------------------------------
(* Further claims about StopContainer *)

SigkillCalls == {i \in Indices : IsKill(i, "SIGKILL")}
InspectCalls == CallsTo("InspectContainer")

\* C27: in a stop that is not dry, a first kill that fails is the only call
\* and its error is returned; after a first kill that succeeded SIGKILL is sent
\* exactly once when the first wait is over, however it ended, and never
\* before; a SIGKILL call that fails is the last call and its error is
\* returned, no second wait being made.
C27_StopKillErrors ==
    NonDry("stop") =>
        /\ (calls # <<>> /\ calls[1].ret = "error") =>
              Len(calls) = 1 /\ Done /\ result = ErrorOf(1)
        /\ Cardinality(SigkillCalls) <= 1
        /\ (aux.wait1 = "none" \/ cpc = "stop:kill") => SigkillCalls = {}
        /\ (aux.wait1 \in {"exited", "inspectError", "timeout"} /\ cpc # "stop:kill") =>
              /\ Cardinality(SigkillCalls) = 1
              /\ \A i \in SigkillCalls :
                    /\ calls[1].ret = "ok"
                    /\ \A j \in 2..(i - 1) : calls[j].api = "InspectContainer"
        /\ \A i \in SigkillCalls : calls[i].ret = "error" =>
              /\ i = Len(calls) /\ Done /\ result = ErrorOf(i)
              /\ aux.wait2 = "none"

C27_Witness ==
    /\ Done /\ NonDry("stop")
    /\ aux.wait1 = "exited"
    /\ \E i \in SigkillCalls : calls[i].ret = "error" /\ result = ErrorOf(i)

-----------------------------------------------------------------------------
(* Further claims about execOnContainer *)

\* strings.Join(fields, " ")
RECURSIVE JoinSP(_)
JoinSP(fields) ==
    IF fields = <<>> THEN <<>>
    ELSE IF Len(fields) = 1 THEN fields[1]
    ELSE fields[1] \o <<SP>> \o JoinSP(Tail(fields))

\* the command strings NetemContainer hands to execOnContainer, in order
ExecCommands == SetupCommands(op) \o <<NetemStopCommand(op.netInterface)>>

\* C28: every exec is created and then started, in that order; it is created
\* privileged on the container, with the fields of its command string between
\* the single spaces as argv (no field holds a space, and the fields joined by
\* one space give the command back); a create that fails is the last call and
\* its error is the result, no start following it; a start names the exec
\* created just before it, and once it returned execOnContainer makes no
\* further call for that exec: its error is the result at once, and after a
\* success the next call, if any, creates the next exec.
C28_ExecCreateThenStart ==
    NonDry("netem") =>
        /\ \A i \in CallsTo("ContainerExecCreate") :
              /\ i % 2 = 1 /\ (i + 1) \div 2 <= Len(ExecCommands)
              /\ calls[i].id = op.c.id
              /\ calls[i].arg.Privileged = TRUE
              /\ \A k \in DOMAIN calls[i].arg.Cmd :
                    \A j \in DOMAIN calls[i].arg.Cmd[k] : calls[i].arg.Cmd[k][j] # SP
              /\ JoinSP(calls[i].arg.Cmd) = ExecCommands[(i + 1) \div 2]
              /\ calls[i].ret = "error" =>
                    i = Len(calls) /\ Done /\ result = ErrorOf(i)
              /\ (calls[i].ret = "ok" /\ i = Len(calls)) => cpc = "exec:start"
        /\ \A i \in CallsTo("ContainerExecStart") :
              /\ i > 1 /\ calls[i - 1].api = "ContainerExecCreate"
              /\ calls[i - 1].ret = "ok" /\ calls[i].id = i - 1
              /\ calls[i].ret = "error" =>
                    i = Len(calls) /\ Done /\ result = ErrorOf(i)
              /\ i < Len(calls) => calls[i + 1].api = "ContainerExecCreate"
              /\ i = Len(calls) => cpc # "exec:start"
        /\ Indices = CallsTo("ContainerExecCreate") \cup CallsTo("ContainerExecStart")

C28_Witness ==
    /\ Done /\ NonDry("netem") /\ op.targetIP # NoIP
    /\ Len(calls) = 3
    /\ calls[2].ret = "ok" /\ calls[3].ret = "error"
    /\ calls[3].api = "ContainerExecCreate" /\ Len(calls[3].arg.Cmd) = 10
    /\ result = ErrorOf(3)

-----------------------------------------------------------------------------
(* Further claims about waitForStop *)

\* the inspect calls of the wait that follows the kill call k
Polls(k) ==
    {i \in InspectCalls :
        i > k /\ \A j \in (k + 1)..i : calls[j].api = "InspectContainer"}

PollsBounded ==
    NonDry("stop") =>
        \A k \in CallsTo("KillContainer") :
            /\ Cardinality(Polls(k)) <= op.timeout + 1
            /\ \A i \in Polls(k) :
                  /\ (i + 1) \in Polls(k) =>
                        /\ calls[i + 1].t >= calls[i].t + 1
                        /\ calls[i].ret = "running"
                  /\ i = k + 1 \/ calls[i].t < calls[k].t + op.timeout

\* C29: each wait of a stop inspects at most once per second and at most
\* wait seconds + 1 times; no inspect of a wait follows one that failed or
\* that saw the container not running, and none but the first is made at or
\* after the timeout; every stop that is not dry returns.
C29_WaitPollsAndStopTerminates ==
    /\ []PollsBounded
    /\ (cpc = "run" /\ NonDry("stop")) ~> Done

C29_Witness ==
    /\ Done /\ NonDry("stop") /\ op.timeout = MaxWait
    /\ \E k \in SigkillCalls :
          /\ Cardinality(Polls(1)) = MaxWait
          /\ Cardinality(Polls(k)) = MaxWait
          /\ aux.wait1 = "timeout" /\ aux.wait2 = "timeout"

-----------------------------------------------------------------------------
(***************************************************************************)
(* From the command line to the tc commands: what a scheduled netem        *)
(* command makes NetemContainer run                                        *)
(***************************************************************************)

\* targetIP.String() of the addresses studied
IPString(ip) ==
    IF ip = <<10, 10, 0, 1>> THEN <<"10.10.0.1">> ELSE <<"other">>

\* the netem spec of a delay command: delay <amount>ms <variation>ms <correlation>%
NetemSpec(cmd) ==
    LET ms(n) == CASE n = 100 -> "100ms" [] n = 10 -> "10ms" [] OTHER -> "ms"
        pct(n) == CASE n = 20 -> "20%" [] OTHER -> "%"
    IN  <<"delay", SP, ms(cmd.amount), SP, ms(cmd.variation), SP, pct(cmd.correlation)>>

\* the NetemContainer call the executor makes for a scheduled netem command:
\* its interface, its netem spec and its IP, nil when the command has none
NetemOpOf(cmd) ==
    [NoOp EXCEPT !.kind = "netem",
                 !.netInterface = cmd.netInterface,
                 !.netemCmd = NetemSpec(cmd),
                 !.targetIP = IF cmd.ip = NoIP THEN NoIP ELSE IPString(cmd.ip),
                 !.duration = cmd.duration]

\* t is written as four numbers 0..255 with a dot between them
DottedQuad(t) ==
    /\ Len(t) = 7
    /\ \A i \in 1..7 : IF i % 2 = 0 THEN t[i] = "."
                                    ELSE t[i] \in {"0", "1", "10"}

UnparseableTarget ==
    cli.command = "netem" /\ cli.parent /\ cli.target # <<>> /\ ~DottedQuad(cli.target)

\* a fault of a netem command line other than its --target
OtherNetemFault ==
    \/ BadLine
    \/ ~MatchesEntirely(cli.netInterface)

\* C33: a netem command line whose --target is given and is not an IP address
\* is rejected only for another fault; without one it is scheduled, with no
\* IP in the command, and NetemContainer then runs the single setup command
\* that puts the netem spec at the root of the interface, with no filter
\* command.
C33_BadTargetUnfiltered ==
    (UnparseableTarget /\ cmdPc \in {"scheduled", "rejected"}) =>
        /\ Rejected => OtherNetemFault
        /\ Scheduled =>
              /\ handed.cmd.ip = NoIP
              /\ SetupCommands(NetemOpOf(handed.cmd)) =
                    << NetemCommand(cli.netInterface, NetemSpec(handed.cmd)) >>
              /\ Split(SetupCommands(NetemOpOf(handed.cmd))[1])[6] = <<"root">>

C33_Witness ==
    /\ Scheduled /\ UnparseableTarget
    /\ cli.target = <<"256", ".", "0", ".", "0", ".", "1">>
    /\ handed.cmd.ip = NoIP /\ handed.cmd.netInterface = Eth0

=============================================================================
